---------------------------- MODULE Spec2Model ----------------------------
(***************************************************************************)
(* Model of the rule engine of the RuleManager (src/core/rulemanager.py,   *)
(* src/core/rule.py, src/core/exceptions.py).                              *)
(*                                                                         *)
(* RuleManager.sequence(items) is modelled at the granularity at which the *)
(* SIGALRM handler installed by it can run: the handler raises             *)
(* TimeoutError in the main thread between two bytecodes, so every program *)
(* point between signal.alarm(timeout) and signal.alarm(0) is a place      *)
(* where TimeoutError can appear.  pc names these program points.          *)
(*                                                                         *)
(* The state sequence() starts from is self.ruleSequence, self.rules and   *)
(* self.conditions.  The rule definitions carry the keys that getRule and  *)
(* bindOptions read: functionName, options, conditions, timeout, ruleName. *)
(* JSON_RULE_SCHEMA (src/schema/__init__.py) names the first key           *)
(* function_name instead; the validation done by loadRules is not part of  *)
(* the model of sequence().  config is that of src/configuration.sample.py *)
(* (src/configuration.py has no DEFAULT_RULE_TIMEOUT).                     *)
(*                                                                         *)
(* The module holds ten specifications over the same variables; each       *)
(* leaves the variables of the others as they start:                       *)
(*   Spec          RuleManager.sequence on a loaded rule sequence          *)
(*   SpecLoad      RuleManager.loadRules                                   *)
(*   SpecLedger    the callers of DeletionDatabase (src/core/database.py)  *)
(*   SpecDeletion  the runs of main() of src/deletionmanager.py, with      *)
(*                 sequence() as in Spec                                   *)
(*   SpecSds       SDSFile and its properties next and previous            *)
(*                 (src/orfeus/sdsfile.py)                                 *)
(*   SpecStat      the properties of SDSFile that read the disk, while     *)
(*                 the file is removed and created                         *)
(*   SpecCollector SDSFileCollector (src/sds/sdscollector.py,              *)
(*                 src/sds/filecollector.py)                               *)
(*   SpecConditions  the conditions on times, on catalog documents and on  *)
(*                 the object store (src/conditions/sdsconditions.py)      *)
(*   SpecLoadThenSequence  sequence() after a loadRules that returned or   *)
(*                 raised                                                  *)
(*   SpecSdsRules  sequence() on pipelines of the rules that ingest,       *)
(*                 quarantine and delete (src/rules/sdsrules.py)           *)
(***************************************************************************)
EXTENDS Integers, Sequences, FiniteSets, TLC

VARIABLES
    rule_seq,       \* rule_seq["sequence"]: the rule names of the sequence document
    ruleSequence,   \* self.ruleSequence: the loaded rule definitions, in order
    total,          \* len(items): the items are items[1..total], in caller order
    i,              \* index of the item of the outer loop (enumerate(items))
    k,              \* index in ruleSequence of the rule of the inner loop
    c,              \* index of the condition assert_policies is at
    pc,             \* program point of sequence()
    alarm,          \* the int given to signal.alarm for the pending timer, 0 when none
                    \* is pending; alarm(unsigned int) takes a negative int s as 2^32 + s
    armedFor,       \* <<item, rule>> the pending timer was armed for
    exc,            \* the exception being handled or propagating, NoExc if none
    brk,            \* the ExitPipelineException handler has executed `break`
    out,            \* log records written for the current (item, rule)
    cur,            \* what has happened so far in the current (item, rule) iteration
    attempts,       \* names of the rules bound so far by the rule loop of the current item
    fate,           \* for each item of a run of the deletion manager, the outcome
                    \* words logged for it so far, in order
    load,           \* loadRules: the documents it is given, and whether it has
                    \* assigned self.ruleSequence
    db,             \* the rows of table `deletion` of the deletion database
    lg,             \* what the callers of the deletion database have done so far
    cli,            \* deletionmanager.main(): its arguments, program point and locals,
                    \* and what its runs have driven so far
    sds,            \* an SDSFile: the filename it was made from, and the descriptor
                    \* that its properties next and previous have led to
    fc              \* an SDSFileCollector: the directory it scans, its files, and
                    \* the last call made on it

(* The variables that sequence() does not touch.                           *)
aux == <<load, lg, cli, sds, fc>>

(* The variables that loadRules does not touch, besides those of           *)
(* sequence().                                                             *)
notLoader == <<db, lg, cli, sds, fc>>

vars == <<aux, db, rule_seq, ruleSequence, total, i, k, c, pc, alarm, armedFor, exc, brk, out, cur,
          attempts, fate>>

----------------------------------------------------------------------------
(* Bounds of the model.                                                    *)

MaxItems == 2
MaxSeqLen == 2
MaxOps == 4
MaxMany == 2

(* config["DEFAULT_RULE_TIMEOUT"]                                          *)
DEFAULT_RULE_TIMEOUT == 10

----------------------------------------------------------------------------
(* Names.  A functionName is a sequence of tokens: the token "!" is the    *)
(* character '!', every other token is an identifier.                      *)

Bang == "!"

NoTimeout == 0

NoExc == [type |-> "none", message |-> <<>>, is_error |-> FALSE]

MkExc(t, m, e) == [type |-> t, message |-> m, is_error |-> e]

(* The exception raised by RuleManager.__signalHandler.                    *)
signalHandler == MkExc("TimeoutError", <<"Metric calculation has timed out.">>, FALSE)

(* The module of condition functions: what a call condition(options, item) *)
(* of each function can do.                                                *)
ConditionNames == {"trueCondition", "falseCondition", "exceptionCondition"}

ConditionRaises ==
    { MkExc("Exception", <<"Oops!">>, FALSE),
      MkExc("AssertionError", <<"assert">>, FALSE),
      MkExc("TimeoutError", <<"timed out">>, FALSE),
      MkExc("ExitPipelineException", <<"boom">>, TRUE),
      MkExc("SystemExit", <<"exit">>, FALSE) }

ConditionCall(name) ==
    CASE name = "trueCondition"      -> { [kind |-> "return", value |-> TRUE, exc |-> NoExc] }
      [] name = "falseCondition"     -> { [kind |-> "return", value |-> FALSE, exc |-> NoExc] }
      [] name = "exceptionCondition" -> { [kind |-> "raise", value |-> FALSE, exc |-> e] :
                                            e \in ConditionRaises }
      [] OTHER                       -> {}

(* The module of rule functions: what a call rule(options, item) can do.   *)
(* timeoutRule never returns by itself.                                    *)
RuleNames == {"passRule", "exceptionRule", "timeoutRule", "quarantine_raw_file_rule",
              "remove_from_deletion_database_rule"}

RuleCall(name) ==
    CASE name = "passRule"      -> { [kind |-> "return", exc |-> NoExc] }
      [] name = "remove_from_deletion_database_rule" -> { [kind |-> "return", exc |-> NoExc] }
      [] name = "exceptionRule" -> { [kind |-> "raise", exc |-> MkExc("Exception", <<"Oops!">>, FALSE)] }
      [] name = "quarantine_raw_file_rule" ->
            { [kind |-> "raise", exc |-> MkExc("ExitPipelineException", <<"boom">>, TRUE)],
              [kind |-> "raise", exc |-> MkExc("ExitPipelineException", <<"File quarantined">>, FALSE)] }
      [] OTHER                  -> {}

(* The rule map: rule definitions by rule name.                            *)
Ref(fn) == [functionName |-> fn, options |-> <<>>]

RuleDef(name, fn, conds, t) ==
    [ruleName |-> name, functionName |-> fn, conditions |-> conds, timeout |-> t]

RuleMap ==
    { RuleDef("conditionsRule", <<"passRule">>,
              <<Ref(<<"trueCondition">>), Ref(<<"falseCondition">>)>>, NoTimeout),
      RuleDef("negatedRule", <<"passRule">>,
              <<Ref(<<Bang, "falseCondition">>)>>, NoTimeout),
      RuleDef("negatedPassRule", <<"passRule">>,
              <<Ref(<<Bang, "trueCondition">>)>>, NoTimeout),
      RuleDef("exceptionRule", <<"exceptionRule">>, <<>>, NoTimeout),
      RuleDef("timeoutRule", <<"timeoutRule">>, <<>>, 1),
      RuleDef("exitRule", <<"quarantine_raw_file_rule">>,
              <<Ref(<<"trueCondition">>)>>, NoTimeout),
      RuleDef("conditionExceptionRule", <<"passRule">>,
              <<Ref(<<"exceptionCondition">>)>>, NoTimeout),
      RuleDef("negativeTimeoutRule", <<"passRule">>, <<>>, -1),
      RuleDef("unknownConditionRule", <<"passRule">>,
              <<Ref(<<"noSuchCondition">>)>>, NoTimeout) }

(* The rule map document given to loadRules: the rules of RuleMap, a rule  *)
(* whose functionName is not an attribute of the rule module, and a rule   *)
(* whose functionName is an attribute that is not callable (the module's   *)
(* logger), and the rule of the deletion pipeline that removes the item    *)
(* from the deletion database.                                             *)
RuleMapDocument ==
    RuleMap \cup
    { RuleDef("unknownActionRule", <<"noSuchRule">>, <<>>, NoTimeout),
      RuleDef("notCallableRule", <<"logger">>, <<>>, NoTimeout),
      RuleDef("removeFromDeletionDatabaseRule", <<"remove_from_deletion_database_rule">>,
              <<>>, NoTimeout) }

RuleMapKeys == { r.ruleName : r \in RuleMapDocument }

(* A name of the sequence document that is not a key of the rule map.      *)
AbsentRule == "absentRule"

(* The attributes of the rule module: its functions and its logger.        *)
RuleModuleAttrs == RuleNames \cup {"logger"}

(* loadRules: rule_desc[rule_name], with the ruleName it is given.         *)
rule_desc(rule_name) == CHOOSE r \in RuleMapDocument : r.ruleName = rule_name

(* Faulty variant of loadSequence: a rule name is loaded once, at its      *)
(* first position.                                                         *)
loadSequenceOnce(sequence) ==
    LET first == { p \in 1..Len(sequence) : \A q \in 1..(p - 1) : sequence[q] # sequence[p] }
        RECURSIVE pick(_)
        pick(p) == IF p > Len(sequence) THEN <<>>
                   ELSE (IF p \in first THEN <<rule_desc(sequence[p])>> ELSE <<>>) \o pick(p + 1)
    IN  pick(1)

(* loadRules: self.ruleSequence, one entry per name of the sequence        *)
(* document, in its order.                                                 *)
loadSequence(sequence) == [p \in 1..Len(sequence) |-> rule_desc(sequence[p])]

SeqsUpTo(S, n) == UNION { [1..m -> S] : m \in 0..n }

----------------------------------------------------------------------------
(* RuleManager.bindOptions: the callable bound for a reference.            *)
(* resolved = FALSE stands for the AttributeError of getattr.              *)

StartsWithBang(fn) == Len(fn) >= 1 /\ fn[1] = Bang

Attr(names, fn) == Len(fn) = 1 /\ fn[1] \in names

bindOptions(isConditions, names, item) ==
    IF isConditions /\ StartsWithBang(item.functionName)
    THEN [resolved |-> Attr(names, Tail(item.functionName)),
          name     |-> Tail(item.functionName),
          wrapped  |-> TRUE]
    ELSE [resolved |-> Attr(names, item.functionName),
          name     |-> item.functionName,
          wrapped  |-> FALSE]

(* RuleManager.getRule: the effective timeout of a rule.                   *)
getRuleTimeout(rule) ==
    IF rule.timeout # NoTimeout THEN rule.timeout ELSE DEFAULT_RULE_TIMEOUT

(* Faulty variant of AssertionMessage: the name of the wrapped function is *)
(* reported without the "!" of the reference.                              *)
AssertionMessageWithoutBang(bound) == bound.name

(* Rule.assert_policies: the message of the AssertionError of a condition  *)
(* that did not hold.                                                      *)
AssertionMessage(bound) ==
    IF bound.wrapped THEN <<Bang>> \o bound.name ELSE bound.name

(* Faulty variant of BoundValue: the "!" is stripped from the name but the *)
(* function is not wrapped by invert.                                      *)
BoundValueNotInverted(bound, value) == value

(* The value of the bound condition callable, from the value of the        *)
(* condition function (invert.g negates it).                               *)
BoundValue(bound, value) == IF bound.wrapped THEN ~value ELSE value

(* The except clause of sequence() that catches an exception raised in the *)
(* try body, in the order of the clauses; "finally" when none does.        *)
IsException(t) == t # "SystemExit"

ExceptClause(e) ==
    CASE e.type = "ExitPipelineException" -> "h_exit"
      [] e.type = "TimeoutError"          -> "h_timeout"
      [] e.type = "AssertionError"        -> "h_assert"
      [] IsException(e.type)              -> "h_error"
      [] OTHER                            -> "finally"

----------------------------------------------------------------------------
(* Log records of the current (item, rule).                                *)

Log(word, detail) == [word |-> word, detail |-> detail]

(* The history of the items of a run of the deletion manager after an      *)
(* outcome word is logged for item i.                                      *)
Noted(word) ==
    IF i \in DOMAIN fate
    THEN [fate EXCEPT ![i] = Append(@, [rule |-> k, word |-> word])]
    ELSE fate

NewIteration ==
    [invoked   |-> 0,        \* number of calls of the rule action
     fired     |-> "no",     \* program point at which the alarm handler ran
     armed     |-> 0,        \* seconds the timer was armed with
     cond      |-> "none",   \* "false": a condition did not hold; "raise": one raised
     condExc   |-> NoExc,    \* the exception assert_policies ended with
     action    |-> "none",   \* how the action ended: "return" or "raise"
     actionExc |-> NoExc]    \* the exception the action raised

Rule == ruleSequence[k]

TryBody == {"conds", "action", "success_log", "try_end"}
Handlers == {"h_exit", "h_exit2", "h_timeout", "h_assert", "h_error"}

----------------------------------------------------------------------------
(* DeletionDatabase (src/core/database.py): table deletion(id INTEGER       *)
(* PRIMARY KEY, file TEXT UNIQUE, created TEXT).  A row is modelled by its *)
(* id, file and created.                                                   *)

FileNames == {"A", "B", "C"}

(* datetime.now().isoformat(): the instant of the insert as text.  The     *)
(* clock is not modelled: every insert happens at this instant.           *)
isoformat_now == "2019-01-24T12:00:00.000000"

Row(id, file) == [id |-> id, file |-> file, created |-> isoformat_now]

(* The rowid SQLite gives a row inserted without an id: one more than the  *)
(* largest id of the table, 1 for an empty table.                          *)
NextRowId(table) ==
    IF table = {} THEN 1
    ELSE (CHOOSE r \in table : \A q \in table : q.id <= r.id).id + 1

(* Faulty variant of _insert_row: the row is inserted whether or not the   *)
(* file is in the table (no UNIQUE constraint on file).                    *)
_insert_row_always(table, filename) == table \cup {Row(NextRowId(table), filename)}

(* Faulty variant of _insert_row: INSERT OR REPLACE, which deletes the row *)
(* of the file and inserts a new one.                                      *)
_insert_row_or_replace(table, filename) ==
    LET others == { r \in table : r.file # filename } IN
    others \cup {Row(NextRowId(table), filename)}

(* _insert_row: INSERT OR IGNORE INTO deletion (file, created).            *)
_insert_row(table, filename) ==
    IF \E r \in table : r.file = filename
    THEN table
    ELSE table \cup {Row(NextRowId(table), filename)}

(* _delete_row: DELETE FROM deletion WHERE file = ?.                       *)
_delete_row(table, filename) == { r \in table : r.file # filename }

(* add_many_files: _insert_row for each file of the list, in its order.    *)
RECURSIVE add_many_files(_, _)
add_many_files(table, file_list) ==
    IF file_list = <<>> THEN table
    ELSE add_many_files(_insert_row(table, Head(file_list)), Tail(file_list))

(* SELECT * FROM deletion: the rows in the order of the table scan, which  *)
(* is the order of their ids.                                              *)
RECURSIVE get_deletion_status(_)
get_deletion_status(table) ==
    IF table = {} THEN <<>>
    ELSE LET first == CHOOSE r \in table : \A q \in table : r.id <= q.id
         IN  <<first>> \o get_deletion_status(table \ {first})

(* get_all_filenames: [row["file"] for row in c.fetchall()].               *)
get_all_filenames(table) ==
    LET rows == get_deletion_status(table) IN [n \in 1..Len(rows) |-> rows[n].file]

(* No caller has used the deletion database yet.                           *)
NoCalls ==
    [adds     |-> [f \in FileNames |-> 0],   \* adds of f since its last remove, 2 for more
     expected |-> <<>>,                      \* the files added and not removed since, in
                                             \* the order they were added
     last     |-> [op |-> "none", files |-> <<>>, had |-> 0],
     nops     |-> 0]

(* No condition is being evaluated on the SDSFile.                         *)
NoCondition ==
    [name    |-> "none",   \* the condition
     options |-> <<>>,     \* its options
     given   |-> <<>>,     \* what the disk, the catalog and the object store answer
     pc      |-> "idle",   \* "found" after _get_neighbor has found the file, "done"
     absent  |-> FALSE,    \* os.path.isfile has answered False
     result  |-> "none"]   \* "True", "False", or the exception raised

(* No property that reads the disk is being read.                          *)
NoRead ==
    [prop   |-> "none",   \* "size", "created", "modified" or "checksum"
     pc     |-> "idle",   \* "checked" after its first self.stats, "done" at its end
     result |-> "none",   \* "None", "value", or the exception it raised
     gone   |-> FALSE]    \* the file was not on disk when the property last looked

(* No call has been made on the SDSFileCollector.                          *)
NoCall ==
    [op     |-> "none",   \* the method called
     args   |-> <<>>,     \* its arguments
     raised |-> "none"]   \* the exception it raised

(* No SDSFileCollector has been made.                                      *)
NoCollector ==
    [made    |-> FALSE,
     tree    |-> <<>>,     \* what os.walk finds below archive_dir, in its order
     walked  |-> 0,        \* how many of them os.walk found when __init__ called it
     scanned |-> <<>>,     \* self.files as __init__ left it
     files   |-> <<>>,     \* self.files
     before  |-> <<>>,     \* self.files when the last call began
     last    |-> NoCall,
     calls   |-> 0]        \* number of calls made after __init__

(* Where the file of the items of a pipeline of SDS rules is: in the       *)
(* temporary archive (its own file, and the raw .D file of a .Q file), in  *)
(* the quarantine area (a file of its name), registered in iRODS, in the   *)
(* object store, in the PPSD and WFCatalog collections; how the last       *)
(* s3manager.put ended, and whether the last deletion found what it        *)
(* deletes.                                                                *)
NoBackends ==
    [archive |-> FALSE, raw |-> FALSE, quarantine |-> FALSE, irods |-> FALSE, s3 |-> FALSE,
     ppsd |-> FALSE, wfcatalog |-> FALSE, put |-> "none", found |-> FALSE]

(* No SDSFile has been made.                                               *)
NoFile ==
    [made        |-> FALSE,
     padded      |-> FALSE,   \* strftime("%Y") of this platform pads a year below 1000
     filename    |-> <<>>,    \* the filename given to SDSFile(filename, archiveRoot)
     archiveRoot |-> <<>>,
     d           |-> <<>>,    \* the descriptor reached
     before      |-> <<>>,    \* the descriptor that the last step started from
     steps       |-> <<>>,    \* the properties read so far: "next", "previous"
     error       |-> "none",  \* the exception that the last step raised
     message     |-> "",      \* its message, for the one that __init__ raises
     onDisk      |-> FALSE,   \* there is a file at the filepath of the descriptor
     read        |-> NoRead,
     reads       |-> 0,       \* number of properties read from the disk so far
     disk        |-> {},      \* which of "previous", "current", "next" have a file
                              \* at their filepath
     cond        |-> NoCondition,
     conds       |-> 0,       \* number of conditions evaluated so far
     backends    |-> NoBackends]

(* deletionmanager.main() is not running and has not run.                  *)
NoRun ==
    [pc       |-> "none",
     run      |-> 0,       \* number of the invocation
     args     |-> TRUE,    \* --delfile, --rulemap and --ruleseq are all given
     delfile  |-> <<>>,    \* the lines of the file --delfile names, stripped
     prev_deletion_status |-> <<>>,
     files    |-> <<>>,    \* filename of each SDSFile of `files`
     filenames |-> <<>>,
     before   |-> {},      \* the files of the deletion table when the run started
     owed     |-> {},      \* input files of the last run that has ended whose
                           \* pipeline did not complete
     retry    |-> {}]      \* items of the last run that has ended with an earlier
                           \* rule that failed, timed out or exited

(* What the action of the rule has done to the deletion table when it      *)
(* returns: remove_from_deletion_database_rule has removed the row of the  *)
(* item's file.                                                            *)
RuleEffect(name) ==
    IF name = "remove_from_deletion_database_rule" /\ i \in DOMAIN cli.files
    THEN _delete_row(db, cli.files[i])
    ELSE db

(* loadRules has returned: its documents were found, the rule map        *)
(* validated and self.ruleSequence was assigned.                           *)
Loaded ==
    [seqFile |-> TRUE, mapFile |-> TRUE, mapValid |-> TRUE, assigned |-> TRUE,
     raised |-> FALSE]     \* the loadRules before the sequence() that runs has raised

----------------------------------------------------------------------------
Init ==
    /\ rule_seq \in SeqsUpTo({ r.ruleName : r \in RuleMap }, MaxSeqLen)
    /\ ruleSequence = loadSequence(rule_seq)
    /\ total \in 0..MaxItems
    /\ i = 1
    /\ k = 1
    /\ c = 1
    /\ pc = "item"
    /\ alarm = 0
    /\ armedFor = <<0, 0>>
    /\ exc = NoExc
    /\ brk = FALSE
    /\ out = <<>>
    /\ cur = NewIteration
    /\ attempts = <<>>
    /\ fate = <<>>
    /\ load = Loaded
    /\ db = {}
    /\ lg = NoCalls
    /\ cli = NoRun
    /\ sds = NoFile
    /\ fc = NoCollector

(* for i, item in enumerate(items): the next item, or the end of           *)
(* sequence().                                                             *)
NextItem ==
    /\ pc = "item"
    /\ IF i <= total
       THEN /\ pc' = "rule"
            /\ k' = 1
            /\ attempts' = <<>>
            /\ fate' = fate
       ELSE /\ pc' = "done"
            /\ k' = k
            /\ attempts' = attempts
            /\ fate' = fate
    /\ brk' = FALSE
    /\ UNCHANGED <<aux, db, rule_seq, ruleSequence, total, i, c, alarm, armedFor, exc, out, cur>>

(* Faulty variant of NextRule: the alarm is not armed before the try       *)
(* statement.                                                              *)
NextRuleNotArmed ==
    /\ pc = "rule"
    /\ IF k <= Len(ruleSequence)
       THEN /\ armedFor' = <<i, k>>
            /\ pc' = "armed"
            /\ out' = <<>>
            /\ cur' = NewIteration
            /\ attempts' = Append(attempts, Rule.ruleName)
            /\ fate' = fate
            /\ i' = i
       ELSE /\ pc' = "item"
            /\ i' = i + 1
            /\ UNCHANGED <<armedFor, out, cur, attempts, fate>>
    /\ UNCHANGED <<aux, db, rule_seq, ruleSequence, total, k, c, alarm, exc, brk>>

(* for rule, timeout in map(self.getRule, self.ruleSequence): the next     *)
(* rule is bound, the handler installed and the alarm armed; or the rule   *)
(* loop of the item ends.                                                  *)
NextRule ==
    /\ pc = "rule"
    /\ IF k <= Len(ruleSequence)
       THEN /\ alarm' = getRuleTimeout(Rule)
            /\ armedFor' = <<i, k>>
            /\ pc' = "armed"
            /\ out' = <<>>
            /\ cur' = [NewIteration EXCEPT !.armed = getRuleTimeout(Rule)]
            /\ attempts' = Append(attempts, Rule.ruleName)
            /\ fate' = fate
            /\ i' = i
       ELSE /\ pc' = "item"
            /\ i' = i + 1
            /\ UNCHANGED <<alarm, armedFor, out, cur, attempts, fate>>
    /\ UNCHANGED <<aux, db, rule_seq, ruleSequence, total, k, c, exc, brk>>

(* try: logger.debug("Executing rule"); rule.apply(item) begins.           *)
EnterTry ==
    /\ pc = "armed"
    /\ pc' = "conds"
    /\ c' = 1
    /\ out' = Append(out, Log("Executing", <<Rule.ruleName>>))
    /\ UNCHANGED <<aux, db, rule_seq, ruleSequence, total, attempts, fate, i, k, alarm, armedFor, exc, brk, cur>>

(* An exception raised in the try body reaches its except clause.          *)
Raise(e) ==
    /\ exc' = e
    /\ pc' = ExceptClause(e)

(* Rule.assert_policies: the next condition is bound and called.           *)
AssertCondition ==
    /\ pc = "conds"
    /\ c <= Len(Rule.conditions)
    /\ LET bound == bindOptions(TRUE, ConditionNames, Rule.conditions[c]) IN
       IF ~bound.resolved
       THEN /\ Raise(MkExc("AttributeError", bound.name, FALSE))
            /\ cur' = [cur EXCEPT !.cond = "raise",
                                  !.condExc = MkExc("AttributeError", bound.name, FALSE)]
            /\ c' = c
       ELSE \E r \in ConditionCall(bound.name[1]) :
              IF r.kind = "raise"
              THEN /\ Raise(r.exc)
                   /\ cur' = [cur EXCEPT !.cond = "raise", !.condExc = r.exc]
                   /\ c' = c
              ELSE IF BoundValue(bound, r.value)
              THEN /\ c' = c + 1
                   /\ UNCHANGED <<pc, exc, cur>>
              ELSE /\ Raise(MkExc("AssertionError", AssertionMessage(bound), FALSE))
                   /\ cur' = [cur EXCEPT !.cond = "false",
                                         !.condExc = MkExc("AssertionError",
                                                           AssertionMessage(bound), FALSE)]
                   /\ c' = c
    /\ UNCHANGED <<aux, db, rule_seq, ruleSequence, total, attempts, fate, i, k, alarm, armedFor, brk, out>>

(* Rule.apply: all conditions held, self.call(item) is entered.            *)
CallRule ==
    /\ pc = "conds"
    /\ c > Len(Rule.conditions)
    /\ pc' = "action"
    /\ cur' = [cur EXCEPT !.invoked = @ + 1]
    /\ UNCHANGED <<aux, db, rule_seq, ruleSequence, total, attempts, fate, i, k, c, alarm, armedFor, exc, brk, out>>

(* The rule action ends: it returns or raises.                             *)
RuleEnds ==
    /\ pc = "action"
    /\ \E r \in RuleCall(bindOptions(FALSE, RuleNames, Rule).name[1]) :
         IF r.kind = "return"
         THEN /\ pc' = "success_log"
              /\ cur' = [cur EXCEPT !.action = "return"]
              /\ exc' = exc
              /\ db' = RuleEffect(bindOptions(FALSE, RuleNames, Rule).name[1])
         ELSE /\ Raise(r.exc)
              /\ cur' = [cur EXCEPT !.action = "raise", !.actionExc = r.exc]
              /\ db' = db
    /\ UNCHANGED <<aux, rule_seq, ruleSequence, total, attempts, fate, i, k, c, alarm, armedFor, brk, out>>

(* logger.info("Successfully executed rule"), last statement of the try    *)
(* body.                                                                   *)
LogSuccess ==
    /\ pc = "success_log"
    /\ out' = Append(out, Log("Success", <<>>))
    /\ fate' = Noted("Success")
    /\ pc' = "try_end"
    /\ UNCHANGED <<aux, db, rule_seq, ruleSequence, total, attempts, i, k, c, alarm, armedFor, exc, brk, cur>>

(* The try body is left normally.                                          *)
LeaveTry ==
    /\ pc = "try_end"
    /\ pc' = "finally"
    /\ UNCHANGED <<aux, db, rule_seq, ruleSequence, total, attempts, fate, i, k, c, alarm, armedFor, exc, brk, out, cur>>

(* except ExitPipelineException: the error or success record.              *)
HandleExit ==
    /\ pc = "h_exit"
    /\ out' = Append(out, IF exc.is_error THEN Log("Failure", exc.message)
                                           ELSE Log("Success", <<>>))
    /\ fate' = Noted(IF exc.is_error THEN "Failure" ELSE "Success")
    /\ pc' = "h_exit2"
    /\ UNCHANGED <<aux, db, rule_seq, ruleSequence, total, attempts, i, k, c, alarm, armedFor, exc, brk, cur>>

(* Faulty variant of HandleExitBreak: the clause logs but does not break.  *)
HandleExitWithoutBreak ==
    /\ pc = "h_exit2"
    /\ out' = Append(out, Log("Exit", <<>>))
    /\ fate' = Noted("Exit")
    /\ exc' = NoExc
    /\ pc' = "finally"
    /\ UNCHANGED <<aux, db, rule_seq, ruleSequence, total, attempts, i, k, c, alarm, armedFor, brk, cur>>

(* except ExitPipelineException: "Exiting pipeline for this file", break.  *)
HandleExitBreak ==
    /\ pc = "h_exit2"
    /\ out' = Append(out, Log("Exit", <<>>))
    /\ fate' = Noted("Exit")
    /\ brk' = TRUE
    /\ exc' = NoExc
    /\ pc' = "finally"
    /\ UNCHANGED <<aux, db, rule_seq, ruleSequence, total, attempts, i, k, c, alarm, armedFor, cur>>

(* Faulty variant of HandleTimeout: the clause leaves the rule loop.       *)
HandleTimeoutBreaks ==
    /\ pc = "h_timeout"
    /\ out' = Append(out, Log("Timeout", <<>>))
    /\ fate' = Noted("Timeout")
    /\ exc' = NoExc
    /\ brk' = TRUE
    /\ pc' = "finally"
    /\ UNCHANGED <<aux, db, rule_seq, ruleSequence, total, attempts, i, k, c, alarm, armedFor, cur>>

(* except TimeoutError.                                                    *)
HandleTimeout ==
    /\ pc = "h_timeout"
    /\ out' = Append(out, Log("Timeout", <<>>))
    /\ fate' = Noted("Timeout")
    /\ exc' = NoExc
    /\ pc' = "finally"
    /\ UNCHANGED <<aux, db, rule_seq, ruleSequence, total, attempts, i, k, c, alarm, armedFor, brk, cur>>

(* except AssertionError.                                                  *)
HandleAssertion ==
    /\ pc = "h_assert"
    /\ out' = Append(out, Log("Skip", exc.message))
    /\ fate' = Noted("Skip")
    /\ exc' = NoExc
    /\ pc' = "finally"
    /\ UNCHANGED <<aux, db, rule_seq, ruleSequence, total, attempts, i, k, c, alarm, armedFor, brk, cur>>

(* Faulty variant of HandleException: the clause logs and re-raises.       *)
HandleExceptionReraises ==
    /\ pc = "h_error"
    /\ out' = Append(out, Log("Failure", exc.message))
    /\ fate' = Noted("Failure")
    /\ pc' = "finally"
    /\ UNCHANGED <<aux, db, rule_seq, ruleSequence, total, attempts, i, k, c, alarm, armedFor, exc, brk, cur>>

(* except Exception.                                                       *)
HandleException ==
    /\ pc = "h_error"
    /\ out' = Append(out, Log("Failure", exc.message))
    /\ fate' = Noted("Failure")
    /\ exc' = NoExc
    /\ pc' = "finally"
    /\ UNCHANGED <<aux, db, rule_seq, ruleSequence, total, attempts, i, k, c, alarm, armedFor, brk, cur>>

(* Faulty variant of AfterFinally: the rule loop is left after every rule. *)
AfterFinallyLeavesLoop ==
    IF exc # NoExc THEN "escaped" ELSE "item"

(* Where control goes after the finally clause.                            *)
AfterFinally ==
    IF exc # NoExc THEN "escaped"
    ELSE IF brk THEN "item"
    ELSE "rule"

(* Faulty variant of Finally: signal.alarm(0) follows the try statement    *)
(* instead of being in its finally clause, so a break or a propagating     *)
(* exception skips it.                                                     *)
FinallyWithoutDisarm ==
    /\ pc = "finally"
    /\ alarm' = IF AfterFinally = "rule" THEN 0 ELSE alarm
    /\ pc' = AfterFinally
    /\ i' = IF AfterFinally = "item" THEN i + 1 ELSE i
    /\ k' = IF AfterFinally = "rule" THEN k + 1 ELSE k
    /\ UNCHANGED <<aux, db, rule_seq, ruleSequence, total, attempts, fate, c, armedFor, exc, brk, out, cur>>

(* finally: signal.alarm(0); then the pending exception propagates out of  *)
(* sequence(), or the break leaves the rule loop, or the rule loop goes    *)
(* on.                                                                     *)
Finally ==
    /\ pc = "finally"
    /\ alarm' = 0
    /\ pc' = AfterFinally
    /\ i' = IF AfterFinally = "item" THEN i + 1 ELSE i
    /\ k' = IF AfterFinally = "rule" THEN k + 1 ELSE k
    /\ UNCHANGED <<aux, db, rule_seq, ruleSequence, total, attempts, fate, c, armedFor, exc, brk, out, cur>>

(* Where the TimeoutError of the signal handler goes, by the program point *)
(* at which the handler runs: before the try statement it leaves           *)
(* sequence(); in the try body it is caught by except TimeoutError; in an  *)
(* except clause or in the finally clause it propagates through finally.   *)
SignalTarget(p) ==
    IF p = "armed" THEN "escaped"
    ELSE IF p \in TryBody THEN "h_timeout"
    ELSE "finally"

(* SIGALRM: the timer expires and __signalHandler runs at the current      *)
(* program point.  The timer is one-shot.                                  *)
Alarm ==
    /\ alarm # 0
    /\ alarm' = 0
    /\ exc' = signalHandler
    /\ pc' = SignalTarget(pc)
    /\ cur' = [cur EXCEPT !.fired = pc]
    /\ UNCHANGED <<aux, db, rule_seq, ruleSequence, total, attempts, fate, i, k, c, armedFor, brk, out>>

Next ==
    \/ NextItem
    \/ NextRule
    \/ EnterTry
    \/ AssertCondition
    \/ CallRule
    \/ RuleEnds
    \/ LogSuccess
    \/ LeaveTry
    \/ HandleExit
    \/ HandleExitBreak
    \/ HandleTimeout
    \/ HandleAssertion
    \/ HandleException
    \/ Finally
    \/ Alarm

Spec == Init /\ [][Next]_vars

----------------------------------------------------------------------------
(* Vocabulary of the properties.                                           *)

IterationPcs == {"armed"} \cup TryBody \cup Handlers \cup {"finally"}

OutcomeWords == {"Success", "Skip", "Timeout", "Failure"}

Count(word) == Cardinality({ n \in 1..Len(out) : out[n].word = word })

HasOutcome == \E n \in 1..Len(out) : out[n].word \in OutcomeWords

Executing == Log("Executing", <<Rule.ruleName>>)

(* The deadline of the current iteration has not expired.                  *)
NoExpiry == cur.fired = "no"

(* A condition function that returns the same value at every call.         *)
Returns(name, v) ==
    /\ ConditionCall(name) # {}
    /\ \A r \in ConditionCall(name) : r.kind = "return" /\ r.value = v

(* The configured reference holds: its function returns true, or it is     *)
(* written with a leading "!" and its function returns false.              *)
RefHolds(ref) ==
    \/ Len(ref.functionName) = 1 /\ Returns(ref.functionName[1], TRUE)
    \/ /\ Len(ref.functionName) = 2
       /\ ref.functionName[1] = Bang
       /\ Returns(ref.functionName[2], FALSE)

(* The iteration armed last is over and the rule loop of the same item is  *)
(* at the rule after it, or that rule was the last of the sequence and the *)
(* outer loop is at the next item.                                         *)
AtNextRule ==
    \/ pc = "rule" /\ i = armedFor[1] /\ k = armedFor[2] + 1
    \/ /\ armedFor[2] = Len(ruleSequence)
       /\ i = armedFor[1] + 1
       /\ pc \in {"item", "rule", "done"}
       /\ pc = "rule" => k = 1

(* The iteration armed last is over and the outer loop is at the next      *)
(* item, at its first rule.                                                *)
AtNextItem ==
    /\ i = armedFor[1] + 1
    /\ pc \in {"item", "rule", "done"}
    /\ pc = "rule" => k = 1
    /\ pc = "done" => armedFor[1] = total

----------------------------------------------------------------------------
(* C1.  When a condition of rule R does not hold for the item, the action  *)
(* of R is not invoked; and, in an iteration whose deadline does not       *)
(* expire, the conditions before it all held and the records of the        *)
(* iteration are Executing and one Skip that carries the configured name   *)
(* of that first failing condition ("!name" when negated): no Success, no  *)
(* Failure, no Exit, and the rule loop is not left.                        *)
C1_SkipOnFailingCondition ==
    (pc \in IterationPcs /\ cur.cond = "false") =>
        /\ cur.invoked = 0
        /\ cur.action = "none"
        /\ NoExpiry =>
            /\ pc \in {"h_assert", "finally"}
            /\ c \in 1..Len(Rule.conditions)
            /\ \A j \in 1..(c - 1) : RefHolds(Rule.conditions[j])
            /\ ~RefHolds(Rule.conditions[c])
            /\ pc = "finally" =>
                /\ out = <<Executing, Log("Skip", Rule.conditions[c].functionName)>>
                /\ exc = NoExc
                /\ ~brk

(* Witness of C1: the second condition of a rule failed after the first    *)
(* held, and the iteration is complete.                                    *)
C1_Witness ==
    /\ pc = "finally"
    /\ cur.cond = "false"
    /\ NoExpiry
    /\ c = 2
    /\ Count("Skip") = 1

(* C2.  When the action of rule k raises an exception that sequence()      *)
(* classifies as a rule error (an Exception other than                     *)
(* ExitPipelineException, TimeoutError and AssertionError), in an          *)
(* iteration whose deadline does not expire: the records of the iteration  *)
(* are Executing and one Failure with the message of the exception,        *)
(* nothing propagates out of sequence(), the rule loop is not left, and    *)
(* the loop goes on with rule k + 1 of the same item.                      *)
C2_FailureThenNextRule ==
    (cur.action = "raise" /\ ExceptClause(cur.actionExc) = "h_error" /\ NoExpiry) =>
        /\ pc \in {"h_error", "finally"} \/ AtNextRule
        /\ pc # "h_error" => out = <<Log("Executing", out[1].detail),
                                     Log("Failure", cur.actionExc.message)>>
        /\ pc = "finally" => exc = NoExc /\ ~brk
        /\ cur.invoked = 1

(* Witness of C2: the first rule of a sequence of two raised, and the rule *)
(* loop is at the second rule of the same item.                            *)
C2_Witness ==
    /\ pc = "rule"
    /\ cur.action = "raise"
    /\ cur.actionExc.type = "Exception"
    /\ NoExpiry
    /\ armedFor = <<1, 1>>
    /\ i = 1
    /\ k = 2
    /\ Len(ruleSequence) = 2

(* C3.  When the action of a rule raises ExitPipelineException for item i, *)
(* in an iteration whose deadline does not expire: the records of the      *)
(* iteration are Executing, then Failure with the message (is_error) or    *)
(* Success (not is_error), then Exit; no later rule of the sequence is     *)
(* started for item i; the outer loop goes on with item i + 1 at the first *)
(* rule.                                                                   *)
C3_ExitLeavesItem ==
    (cur.action = "raise" /\ cur.actionExc.type = "ExitPipelineException" /\ NoExpiry) =>
        /\ pc \in {"h_exit", "h_exit2", "finally"} \/ AtNextItem
        /\ pc \notin {"h_exit", "h_exit2"} =>
              out = <<Log("Executing", out[1].detail),
                      IF cur.actionExc.is_error
                      THEN Log("Failure", cur.actionExc.message)
                      ELSE Log("Success", <<>>),
                      Log("Exit", <<>>)>>
        /\ pc = "finally" => exc = NoExc /\ brk

(* Witness of C3: the first of two rules exited the pipeline of item 1     *)
(* with an error, and the loop is at the first rule of item 2.             *)
C3_Witness ==
    /\ pc = "rule"
    /\ cur.action = "raise"
    /\ cur.actionExc.type = "ExitPipelineException"
    /\ cur.actionExc.is_error
    /\ NoExpiry
    /\ armedFor = <<1, 1>>
    /\ Len(ruleSequence) = 2
    /\ i = 2
    /\ k = 1

(* C4.  When the deadline armed for (item, rule) expires while rule.apply  *)
(* runs (its conditions or its action, before the action has returned):    *)
(* the action does not complete, the records of the iteration are          *)
(* Executing and exactly one Timeout, nothing propagates out of            *)
(* sequence(), and the loop goes on with the next rule of the same item.   *)
C4_TimeoutThenNextRule ==
    (cur.fired \in {"conds", "action"}) =>
        /\ cur.action = "none"
        /\ pc \in {"h_timeout", "finally"} \/ AtNextRule
        /\ pc # "h_timeout" => /\ out = <<Log("Executing", out[1].detail),
                                          Log("Timeout", <<>>)>>
                               /\ Count("Timeout") = 1
        /\ pc = "finally" => exc = NoExc /\ ~brk
        /\ alarm = 0

(* Witness of C4: the action of the first of two rules was interrupted by  *)
(* the deadline, and the rule loop is at the second rule of the item.      *)
C4_Witness ==
    /\ pc = "rule"
    /\ cur.fired = "action"
    /\ cur.invoked = 1
    /\ armedFor = <<1, 1>>
    /\ i = 1
    /\ k = 2
    /\ Len(ruleSequence) = 2
    /\ Count("Timeout") = 1

(* C5.  No exception propagates out of sequence().                         *)
C5_NothingEscapes == pc # "escaped"

(* What holds instead of C5: an exception leaves sequence() only if the    *)
(* alarm handler ran outside the try body, or a condition or the action    *)
(* raised an exception that is not an Exception.                           *)
C5_EscapesOnly ==
    pc = "escaped" =>
        \/ cur.fired \in {"armed", "finally"} \cup Handlers
        \/ cur.cond = "raise" /\ ~IsException(cur.condExc.type)
        \/ cur.action = "raise" /\ ~IsException(cur.actionExc.type)

(* C6.  Items are taken in caller order and, within an item, the rules in  *)
(* sequence order, one at a time: when the rule loop is about to start     *)
(* rule k > 1 of item i, the iteration before it was rule k - 1 of item i, *)
(* it has recorded its outcome and it is over (no exception pending, alarm *)
(* off, no break); when the loop is at the first rule of item i > 1, the   *)
(* iteration before it was of item i - 1 and that item's rule loop has     *)
(* ended (its last rule, or an Exit); and while an iteration runs it is    *)
(* the one of the current item and rule.                                   *)
C6_InOrderOneAtATime ==
    /\ pc \in IterationPcs => armedFor = <<i, k>> /\ i \in 1..total /\ k \in 1..Len(ruleSequence)
    /\ (pc = "rule" /\ k > 1) =>
          /\ armedFor = <<i, k - 1>>
          /\ HasOutcome
          /\ exc = NoExc
          /\ alarm = 0
          /\ ~brk
    /\ (pc = "rule" /\ k = 1 /\ Len(ruleSequence) > 0) =>
          \/ i = 1 /\ armedFor = <<0, 0>>
          \/ /\ i > 1
             /\ armedFor[1] = i - 1
             /\ armedFor[2] = Len(ruleSequence) \/ Count("Exit") = 1
             /\ HasOutcome
             /\ exc = NoExc
             /\ alarm = 0

(* Witness of C6: the loop is about to start the second rule of the second *)
(* item.                                                                   *)
C6_Witness ==
    /\ pc = "rule"
    /\ i = 2
    /\ k = 2
    /\ k <= Len(ruleSequence)

(* C7.  The deadline of an iteration is disarmed on every way out of it:   *)
(* no timer is pending when the rule loop or the item loop is at its head, *)
(* nor after sequence() has returned or raised; a pending timer is always  *)
(* the one armed for the current (item, rule), with that rule's timeout.   *)
C7_DisarmedOnEveryExit ==
    /\ pc \in {"item", "rule", "done", "escaped"} => alarm = 0
    /\ alarm # 0 =>
          /\ pc \in IterationPcs
          /\ armedFor = <<i, k>>
          /\ alarm = cur.armed
          /\ NoExpiry

(* Witness of C7: the rule loop was left by break, after an Exit, and the  *)
(* next item is about to start.                                            *)
C7_Witness ==
    /\ pc = "item"
    /\ i = 2
    /\ brk
    /\ Count("Exit") = 1
    /\ alarm = 0

C9_ConditionExceptionIsFailure ==
    (cur.cond = "raise" /\ NoExpiry) =>
        /\ cur.invoked = 0
        /\ pc \in {"h_error", "finally"} \/ AtNextRule
        /\ pc # "h_error" => out = <<Log("Executing", out[1].detail),
                                     Log("Failure", cur.condExc.message)>>

(* What holds of C9: it holds for the exceptions caught by the clause      *)
(* `except Exception`.                                                     *)
C9_OrdinaryConditionException ==
    (cur.cond = "raise" /\ ExceptClause(cur.condExc) = "h_error" /\ NoExpiry) =>
        /\ cur.invoked = 0
        /\ pc \in {"h_error", "finally"} \/ AtNextRule
        /\ pc # "h_error" => out = <<Log("Executing", out[1].detail),
                                     Log("Failure", cur.condExc.message)>>

(* C10.  A condition reference written "!name" is bound to the condition   *)
(* function `name` and holds exactly when that function returns false: in  *)
(* a complete iteration, whose deadline did not expire, of a rule whose    *)
(* only condition is "!name", if `name` returns false the action has been  *)
(* invoked exactly once and, when it returned, the records are Executing   *)
(* and Success; if `name` returns true the action has not been invoked and *)
(* the records are Executing and Skip("!name").                            *)
C10_NegatedCondition ==
    (/\ pc = "finally"
     /\ NoExpiry
     /\ Len(Rule.conditions) = 1
     /\ Len(Rule.conditions[1].functionName) = 2
     /\ Rule.conditions[1].functionName[1] = Bang) =>
        LET name == Rule.conditions[1].functionName[2] IN
        /\ Returns(name, FALSE) =>
              /\ cur.invoked = 1
              /\ cur.cond = "none"
              /\ cur.action = "return" => out = <<Executing, Log("Success", <<>>)>>
        /\ Returns(name, TRUE) =>
              /\ cur.invoked = 0
              /\ out = <<Executing, Log("Skip", <<Bang, name>>)>>

(* Witness of C10: the rule gated by "!falseCondition" has run its action  *)
(* and recorded Success.                                                   *)
C10_Witness ==
    /\ pc = "finally"
    /\ NoExpiry
    /\ Rule.conditions = <<Ref(<<Bang, "falseCondition">>)>>
    /\ cur.invoked = 1
    /\ Count("Success") = 1

----------------------------------------------------------------------------
(* RuleManager.loadRules(ruleModule, conditionModule, ruleSequenceFile).   *)
(* pc is the program point of loadRules, exc the exception it raises, k    *)
(* the position __checkRuleSequence is at.  ruleSequence = <<>> with       *)
(* ~load.assigned stands for self.ruleSequence = None.                     *)

LoadInit ==
    /\ load \in [seqFile : BOOLEAN, mapFile : BOOLEAN, mapValid : BOOLEAN, assigned : {FALSE},
                  raised : {FALSE}]
    /\ rule_seq \in SeqsUpTo(RuleMapKeys \cup {AbsentRule}, MaxSeqLen)
    /\ ruleSequence = <<>>
    /\ total = 0
    /\ i = 1
    /\ k = 1
    /\ c = 1
    /\ pc = "l_sequence_file"
    /\ alarm = 0
    /\ armedFor = <<0, 0>>
    /\ exc = NoExc
    /\ brk = FALSE
    /\ out = <<>>
    /\ cur = NewIteration
    /\ attempts = <<>>
    /\ fate = <<>>
    /\ db = {}
    /\ lg = NoCalls
    /\ cli = NoRun
    /\ sds = NoFile
    /\ fc = NoCollector

(* loadRules raises e.                                                     *)
LoadRaise(e) ==
    /\ exc' = e
    /\ pc' = "load_failed"

(* The sequence file is opened and parsed; IOError when it is not there.   *)
OpenSequenceFile ==
    /\ pc = "l_sequence_file"
    /\ IF load.seqFile
       THEN pc' = "l_rule_map" /\ exc' = exc
       ELSE LoadRaise(MkExc("IOError", <<"The rule sequence file could not be found.">>, FALSE))
    /\ UNCHANGED <<notLoader, load, rule_seq, ruleSequence, total, i, k, c, alarm, armedFor, brk, out, cur,
                   attempts, fate>>

(* The rule map file named by the sequence document is opened and parsed.  *)
OpenRuleMap ==
    /\ pc = "l_rule_map"
    /\ IF load.mapFile
       THEN pc' = "l_validate" /\ exc' = exc
       ELSE LoadRaise(MkExc("IOError", <<"The rulemap could not be found.">>, FALSE))
    /\ UNCHANGED <<notLoader, load, rule_seq, ruleSequence, total, i, k, c, alarm, armedFor, brk, out, cur,
                   attempts, fate>>

(* jsonschema.validate(rule_desc, JSON_RULE_SCHEMA).                       *)
ValidateRuleMap ==
    /\ pc = "l_validate"
    /\ IF load.mapValid
       THEN pc' = "l_get_rules" /\ exc' = exc
       ELSE LoadRaise(MkExc("ValueError",
                            <<"The rulemap does not validate against the schema.">>, FALSE))
    /\ UNCHANGED <<notLoader, load, rule_seq, ruleSequence, total, i, k, c, alarm, armedFor, brk, out, cur,
                   attempts, fate>>

(* The position of the first name of the sequence document that is not a   *)
(* key of the rule map; 0 when every name is a key.                        *)
FirstKeyError(sequence) ==
    LET bad == { p \in 1..Len(sequence) : sequence[p] \notin RuleMapKeys } IN
    IF bad = {} THEN 0 ELSE CHOOSE p \in bad : \A q \in bad : p <= q

(* Faulty variant of GetRules: the names that are not keys of the rule map *)
(* are left out of the loaded sequence.                                    *)
GetRulesSkipsUnknown ==
    /\ pc = "l_get_rules"
    /\ ruleSequence' = loadSequence(SelectSeq(rule_seq, LAMBDA n : n \in RuleMapKeys))
    /\ load' = [load EXCEPT !.assigned = TRUE]
    /\ pc' = "l_check"
    /\ k' = 1
    /\ UNCHANGED <<notLoader, rule_seq, total, i, c, alarm, armedFor, exc, brk, out, cur, attempts, fate>>

(* self.ruleSequence = [rule_desc[rule_name] for rule_name in sequence];   *)
(* the KeyError of the first name that is no key becomes a ValueError that *)
(* carries the name, and self.ruleSequence is not assigned.                *)
GetRules ==
    /\ pc = "l_get_rules"
    /\ IF FirstKeyError(rule_seq) = 0
       THEN /\ ruleSequence' = loadSequence(rule_seq)
            /\ load' = [load EXCEPT !.assigned = TRUE]
            /\ pc' = "l_check"
            /\ k' = 1
            /\ exc' = exc
       ELSE /\ LoadRaise(MkExc("ValueError",
                               <<"The rule could not be found in the configured rule map.",
                                 rule_seq[FirstKeyError(rule_seq)]>>, FALSE))
            /\ UNCHANGED <<ruleSequence, load, k>>
    /\ UNCHANGED <<notLoader, rule_seq, total, i, c, alarm, armedFor, brk, out, cur, attempts, fate>>

(* getRule(item) as __checkRuleSequence calls it: the rule function is     *)
(* bound at once (getattr, then partial, which takes only a callable); the *)
(* conditions are a map object, which binds a condition only when          *)
(* assert_policies iterates over it.                                       *)
getRule(rule) ==
    LET bound == bindOptions(FALSE, RuleModuleAttrs, rule) IN
    IF ~bound.resolved THEN "AttributeError"
    ELSE IF bound.name[1] \notin RuleNames THEN "TypeError"
    ELSE "ok"

(* __checkRuleSequence: the next item of the sequence is checked.          *)
CheckRule ==
    /\ pc = "l_check"
    /\ k <= Len(ruleSequence)
    /\ CASE getRule(ruleSequence[k]) = "AttributeError" ->
              /\ LoadRaise(MkExc("NotImplementedError",
                                 <<"Python rule for configured sequence item does not exist.",
                                   ruleSequence[k].ruleName>>, FALSE))
              /\ k' = k
         [] getRule(ruleSequence[k]) = "TypeError" ->
              /\ LoadRaise(MkExc("TypeError", <<"the first argument must be callable">>, FALSE))
              /\ k' = k
         [] OTHER ->
              /\ k' = k + 1
              /\ UNCHANGED <<pc, exc>>
    /\ UNCHANGED <<notLoader, load, rule_seq, ruleSequence, total, i, c, alarm, armedFor, brk, out, cur,
                   attempts, fate>>

(* __checkRuleSequence has checked every item: loadRules returns.          *)
CheckDone ==
    /\ pc = "l_check"
    /\ k > Len(ruleSequence)
    /\ pc' = "loaded"
    /\ UNCHANGED <<notLoader, load, rule_seq, ruleSequence, total, i, k, c, alarm, armedFor, exc, brk, out,
                   cur, attempts, fate>>

LoadNext ==
    \/ OpenSequenceFile
    \/ OpenRuleMap
    \/ ValidateRuleMap
    \/ GetRules
    \/ CheckRule
    \/ CheckDone

SpecLoad == LoadInit /\ [][LoadNext]_vars

----------------------------------------------------------------------------
(* Vocabulary of C11.                                                      *)

CountIn(seq, name) == Cardinality({ p \in 1..Len(seq) : seq[p] = name })

(* The rule loop of an item has ended and the next item, if any, has not   *)
(* started its own.                                                        *)
ItemLoopOver == (pc = "item" /\ i > 1) \/ (pc = "done" /\ total >= 1)

(* The loaded sequence has one entry per name of the sequence document, at *)
(* the position of the name.                                               *)
LoadedAsWritten ==
    /\ Len(ruleSequence) = Len(rule_seq)
    /\ \A p \in 1..Len(rule_seq) : ruleSequence[p] = rule_desc(rule_seq[p])
    /\ \A r \in RuleMap : CountIn(rule_seq, r.ruleName) =
          Cardinality({ p \in 1..Len(ruleSequence) : ruleSequence[p].ruleName = r.ruleName })

(* C11 as stated: a name that occurs n times in the sequence document is   *)
(* loaded n times, and once the rule loop of an item is over the rule has  *)
(* been attempted n times for it, at the positions of the document.        *)
C11_AttemptedAsOftenAsListed ==
    /\ LoadedAsWritten
    /\ ItemLoopOver =>
          /\ attempts = rule_seq
          /\ \A r \in RuleMap : CountIn(attempts, r.ruleName) = CountIn(rule_seq, r.ruleName)

(* C11 as amended: a name that occurs n times in the sequence document is  *)
(* loaded n times; for every item the rules are attempted at the positions *)
(* of the document, in order, as far as the rule loop of the item gets;    *)
(* once it is over and no rule has exited the pipeline for the item, each  *)
(* rule has been attempted as often as it is listed; after an Exit only    *)
(* the positions up to the exiting rule have been attempted.               *)
C11_AttemptedUntilExit ==
    /\ LoadedAsWritten
    /\ Len(attempts) <= Len(rule_seq)
    /\ \A p \in 1..Len(attempts) : attempts[p] = rule_seq[p]
    /\ pc \in IterationPcs => Len(attempts) = k /\ attempts[k] = Rule.ruleName
    /\ (ItemLoopOver /\ Count("Exit") = 0) =>
          /\ attempts = rule_seq
          /\ \A r \in RuleMap : CountIn(attempts, r.ruleName) = CountIn(rule_seq, r.ruleName)
    /\ (ItemLoopOver /\ Count("Exit") = 1) => Len(attempts) = armedFor[2]

(* Witness of C11: a rule listed twice has been attempted twice for the    *)
(* first item, whose rule loop is over.                                    *)
C11_Witness ==
    /\ pc = "item"
    /\ i = 2
    /\ Len(rule_seq) = 2
    /\ rule_seq[1] = rule_seq[2]
    /\ attempts = rule_seq
    /\ CountIn(attempts, rule_seq[1]) = 2

(* C12.  While the deadline of a rule is pending it is the configured      *)
(* timeout of the rule when that is a positive integer, and the default    *)
(* timeout when the rule has no timeout or a timeout that is zero or       *)
(* negative.                                                               *)
C12_EffectiveTimeout ==
    pc \in TryBody =>
        alarm = IF Rule.timeout > 0 THEN Rule.timeout ELSE DEFAULT_RULE_TIMEOUT

(* What holds of C12: the timeout of the rule when it is positive, the     *)
(* default when it is absent or zero; a negative timeout s is passed to    *)
(* signal.alarm as it is, which arms a timer of 2^32 + s seconds.          *)
C12_TimeoutAsConfigured ==
    pc \in TryBody =>
        /\ Rule.timeout > 0 => alarm = Rule.timeout
        /\ Rule.timeout = NoTimeout => alarm = DEFAULT_RULE_TIMEOUT
        /\ Rule.timeout < 0 => alarm = Rule.timeout

----------------------------------------------------------------------------
(* The callers of DeletionDatabase: add_filename, add_many_files and       *)
(* remove, in any order, on a database that starts empty.                  *)

execVars == <<rule_seq, ruleSequence, total, i, k, c, pc, alarm, armedFor, exc, brk, out, cur,
              attempts, fate>>

(* sequence() and loadRules are not running.                               *)
ExecutorIdle ==
    /\ rule_seq = <<>>
    /\ ruleSequence = <<>>
    /\ total = 0
    /\ i = 1
    /\ k = 1
    /\ c = 1
    /\ pc = "idle"
    /\ alarm = 0
    /\ armedFor = <<0, 0>>
    /\ exc = NoExc
    /\ brk = FALSE
    /\ out = <<>>
    /\ cur = NewIteration
    /\ attempts = <<>>
    /\ fate = <<>>

Range(seq) == { seq[n] : n \in 1..Len(seq) }

(* The record of the callers after they have added the files of a list:    *)
(* a file not yet expected is expected after those that are.               *)
RECURSIVE AppendNew(_, _)
AppendNew(seq, files) ==
    IF files = <<>> THEN seq
    ELSE AppendNew(IF Head(files) \in Range(seq) THEN seq ELSE Append(seq, Head(files)),
                   Tail(files))

Min(a, b) == IF a <= b THEN a ELSE b

Called(op, files) ==
    [adds     |-> [f \in FileNames |->
                     IF op = "remove"
                     THEN (IF f \in Range(files) THEN 0 ELSE lg.adds[f])
                     ELSE Min(2, lg.adds[f] + CountIn(files, f))],
     expected |-> IF op = "remove"
                  THEN SelectSeq(lg.expected, LAMBDA f : f \notin Range(files))
                  ELSE AppendNew(lg.expected, files),
     last     |-> [op |-> op, files |-> files,
                   had |-> IF op = "remove" THEN lg.adds[files[1]] ELSE 0],
     nops     |-> lg.nops + 1]

LedgerInit ==
    /\ db = {}
    /\ lg = NoCalls
    /\ cli = NoRun
    /\ sds = NoFile
    /\ fc = NoCollector
    /\ load = Loaded
    /\ ExecutorIdle

(* DeletionDatabase.add_filename(filename).                                *)
AddFilename ==
    /\ lg.nops < MaxOps
    /\ \E f \in FileNames :
          /\ db' = _insert_row(db, f)
          /\ lg' = Called("add_filename", <<f>>)
    /\ UNCHANGED <<load, cli, sds, fc, execVars>>

(* DeletionDatabase.add_many_files(file_list).                             *)
AddManyFiles ==
    /\ lg.nops < MaxOps
    /\ \E file_list \in SeqsUpTo(FileNames, MaxMany) :
          /\ db' = add_many_files(db, file_list)
          /\ lg' = Called("add_many_files", file_list)
    /\ UNCHANGED <<load, cli, sds, fc, execVars>>

(* DeletionDatabase.remove(sds_file).                                      *)
Remove ==
    /\ lg.nops < MaxOps
    /\ \E f \in FileNames :
          /\ db' = _delete_row(db, f)
          /\ lg' = Called("remove", <<f>>)
    /\ UNCHANGED <<load, cli, sds, fc, execVars>>

LedgerNext ==
    \/ AddFilename
    \/ AddManyFiles
    \/ Remove

SpecLedger == LedgerInit /\ [][LedgerNext]_vars

(* The number of rows of the table whose file is f.                        *)
Entries(f) == Cardinality({ r \in db : r.file = f })

(* C15.  A file added once or more since it was last removed has exactly   *)
(* one row, whether it was added by add_filename or by add_many_files; a   *)
(* file that was removed and not added since has none; after a remove of   *)
(* the only file added, the list of all filenames is empty.                *)
C15_AddTwiceRemoveOnce ==
    /\ \A f \in FileNames : Entries(f) = IF lg.adds[f] >= 1 THEN 1 ELSE 0
    /\ lg.last.op = "remove" =>
          /\ Entries(lg.last.files[1]) = 0
          /\ lg.last.files[1] \notin Range(get_all_filenames(db))
          /\ (\A g \in FileNames : lg.adds[g] = 0) => get_all_filenames(db) = <<>>

(* Witness of C15: a file that had been added twice has been removed, and  *)
(* the list of all filenames is empty.                                     *)
C15_Witness ==
    /\ lg.last.op = "remove"
    /\ lg.last.had = 2
    /\ lg.nops = 3
    /\ get_all_filenames(db) = <<>>

(* C16.  After any sequence of add_filename, add_many_files and remove,    *)
(* get_all_filenames returns the files added and not removed since, each   *)
(* once, in the order in which they were added; its length is the count.   *)
C16_ListIsAddedNotRemoved ==
    /\ get_all_filenames(db) = lg.expected
    /\ Len(get_all_filenames(db)) = Cardinality(Range(lg.expected))
    /\ Range(lg.expected) = { f \in FileNames : lg.adds[f] >= 1 }

(* Witness of C16: after adds of A, B and A again and a remove of A the    *)
(* list is [B] and the count 1.                                            *)
C16_Witness ==
    /\ lg.nops = 4
    /\ lg.last = [op |-> "remove", files |-> <<"A">>, had |-> 2]
    /\ lg.adds["B"] = 1
    /\ get_all_filenames(db) = <<"B">>
    /\ Len(get_all_filenames(db)) = 1
    /\ db = {Row(2, "B")}

----------------------------------------------------------------------------
(* C13.  When the documents are found and the rule map validates, a load   *)
(* whose sequence document has a name that is no key of the rule map ends  *)
(* with the ValueError that carries the first such name; the loaded        *)
(* sequence is never assigned, the check of the rules is never reached and *)
(* nothing is executed.  Whatever the documents, such a load never         *)
(* returns normally.                                                       *)
C13_UnknownRuleFailsLoad ==
    FirstKeyError(rule_seq) # 0 =>
        /\ pc \notin {"l_check", "loaded"}
        /\ ~load.assigned
        /\ ruleSequence = <<>>
        /\ out = <<>> /\ attempts = <<>> /\ cur = NewIteration
        /\ (pc = "load_failed" /\ load.seqFile /\ load.mapFile /\ load.mapValid) =>
              /\ exc.type = "ValueError"
              /\ exc.message[2] = rule_seq[FirstKeyError(rule_seq)]
              /\ exc.message[2] \notin RuleMapKeys

(* Witness of C13: the second name of the sequence document is no key of   *)
(* the rule map, and loadRules has raised the ValueError that names it.    *)
C13_Witness ==
    /\ pc = "load_failed"
    /\ Len(rule_seq) = 2
    /\ rule_seq[1] \in RuleMapKeys
    /\ rule_seq[2] = AbsentRule
    /\ exc.type = "ValueError"
    /\ Len(exc.message) = 2
    /\ exc.message[2] = AbsentRule

(* The names of a rule definition resolve: its functionName is a function  *)
(* of the rule module, and the name of each of its conditions, without a   *)
(* leading "!", is a function of the condition module.                     *)
Resolves(rule) ==
    /\ getRule(rule) = "ok"
    /\ \A n \in 1..Len(rule.conditions) :
          bindOptions(TRUE, ConditionNames, rule.conditions[n]).resolved

C14_ActionsResolve ==
    /\ pc = "loaded" => \A p \in 1..Len(ruleSequence) : getRule(ruleSequence[p]) = "ok"
    /\ (pc = "load_failed" /\ load.assigned) =>
          /\ getRule(ruleSequence[k]) # "ok"
          /\ exc.type = IF getRule(ruleSequence[k]) = "AttributeError"
                        THEN "NotImplementedError" ELSE "TypeError"

----------------------------------------------------------------------------
(* deletionmanager.main(): the runs of the deletion manager, one after the *)
(* other, on a deletion table that callers of add_many_files have filled. *)
(* sequence() runs as in Spec, on the files the run has collected.         *)

MaxRuns == 2
MaxLines == 2

(* The filenames of the input lists and of the table: valid SDS filenames. *)
DelNames == {"A", "B"}

RemovalRule == "removeFromDeletionDatabaseRule"

BadWords == {"Failure", "Timeout", "Exit"}

(* The rule loop of item n has logged an outcome for every rule, none of   *)
(* them a failure, a timeout or an exit.                                   *)
Completed(n) ==
    /\ n \in DOMAIN fate
    /\ \A p \in 1..Len(ruleSequence) : \E e \in Range(fate[n]) : e.rule = p
    /\ \A e \in Range(fate[n]) : e.word \notin BadWords

(* A rule before the last one has failed, timed out or exited for item n.  *)
EarlierBad(n) ==
    /\ n \in DOMAIN fate
    /\ \E e \in Range(fate[n]) : e.rule < Len(ruleSequence) /\ e.word \in BadWords

(* A new process runs main(): lines 19-29.                                 *)
Invoked(run, args, delfile, owed, retry) ==
    [pc |-> "main", run |-> run, args |-> args, delfile |-> delfile,
     prev_deletion_status |-> <<>>, files |-> <<>>, filenames |-> <<>>,
     before |-> { r.file : r \in db }, owed |-> owed, retry |-> retry]

SequenceNotRunning ==
    /\ ruleSequence = <<>>
    /\ total = 0
    /\ i = 1
    /\ k = 1
    /\ c = 1
    /\ pc = "idle"
    /\ alarm = 0
    /\ armedFor = <<0, 0>>
    /\ exc = NoExc
    /\ brk = FALSE
    /\ out = <<>>
    /\ cur = NewIteration
    /\ attempts = <<>>
    /\ fate = <<>>

DeletionInit ==
    /\ rule_seq \in { Append(s, RemovalRule) :
                        s \in SeqsUpTo({ r.ruleName : r \in RuleMap }, MaxSeqLen - 1) }
    /\ db \in { add_many_files({}, file_list) : file_list \in SeqsUpTo(DelNames, MaxLines) }
    /\ lg = NoCalls
    /\ load = Loaded
    /\ sds = NoFile
    /\ fc = NoCollector
    /\ \E args \in BOOLEAN, delfile \in SeqsUpTo(DelNames, MaxLines) :
          cli = Invoked(1, args, delfile, {}, {})
    /\ SequenceNotRunning

(* Lines 31-37: main returns after a message when an argument is missing.  *)
CheckParameters ==
    /\ cli.pc = "main"
    /\ cli' = IF cli.args
              THEN [cli EXCEPT !.pc = "set_up_rules"]
              ELSE [cli EXCEPT !.pc = "returned", !.owed = {}, !.retry = {}]
    /\ UNCHANGED <<db, lg, load, sds, fc, execVars>>

(* Lines 39-41: RM.loadRules(sdsrules, sdsconditions, rulemap, ruleseq)    *)
(* returns with the rules loaded, or raises: a document that does not      *)
(* load, or, with loadRules(self, ruleModule, conditionModule,             *)
(* ruleSequenceFile) of core/rulemanager.py, the TypeError of a call with  *)
(* one argument too many.  `except Exception` of line 71 handles it.       *)
SetUpRules ==
    /\ cli.pc = "set_up_rules"
    /\ \E returns \in BOOLEAN :
          IF returns
          THEN /\ ruleSequence' = loadSequence(rule_seq)
               /\ cli' = [cli EXCEPT !.pc = "get_status"]
          ELSE /\ ruleSequence' = ruleSequence
               /\ cli' = [cli EXCEPT !.pc = "general_error",
                                     !.owed = Range(cli.delfile), !.retry = {}]
    /\ UNCHANGED <<db, lg, load, sds, fc, rule_seq, total, i, k, c, pc, alarm, armedFor, exc, brk, out,
                   cur, attempts, fate>>

(* Lines 43-47: prev_deletion_status = del_db.get_deletion_status().       *)
GetDeletionStatus ==
    /\ cli.pc = "get_status"
    /\ cli' = [cli EXCEPT !.pc = "collect_pending",
                          !.prev_deletion_status = get_deletion_status(db)]
    /\ UNCHANGED <<db, lg, load, sds, fc, execVars>>

(* Lines 49-55: the rows f with f[2] == "to-delete"; f[2] is the column    *)
(* `created` of the row.                                                   *)
CollectPending ==
    /\ cli.pc = "collect_pending"
    /\ LET rows == SelectSeq(cli.prev_deletion_status, LAMBDA f : f.created = "to-delete")
           names == [n \in 1..Len(rows) |-> rows[n].file]
       IN  cli' = [cli EXCEPT !.pc = "collect_new", !.files = names, !.filenames = names]
    /\ UNCHANGED <<db, lg, load, sds, fc, execVars>>

(* Lines 59-62: each line of the input list that is not in filenames is   *)
(* appended to it.  files gets an SDSFile of the same lines.               *)
RECURSIVE collect_new(_, _)
collect_new(filenames, del_list) ==
    IF del_list = <<>> THEN filenames
    ELSE collect_new(IF Head(del_list) \in Range(filenames) THEN filenames
                     ELSE Append(filenames, Head(del_list)),
                     Tail(del_list))

(* Lines 57-64.                                                            *)
CollectNew ==
    /\ cli.pc = "collect_new"
    /\ cli' = [cli EXCEPT !.pc = "apply",
                          !.files = collect_new(cli.files, cli.delfile),
                          !.filenames = collect_new(cli.filenames, cli.delfile)]
    /\ UNCHANGED <<db, lg, load, sds, fc, execVars>>

(* Line 67: RM.sequence(files) is called.                                  *)
ApplySequence ==
    /\ cli.pc = "apply"
    /\ cli' = [cli EXCEPT !.pc = "sequence"]
    /\ total' = Len(cli.files)
    /\ i' = 1
    /\ k' = 1
    /\ c' = 1
    /\ pc' = "item"
    /\ alarm' = 0
    /\ armedFor' = <<0, 0>>
    /\ exc' = NoExc
    /\ brk' = FALSE
    /\ out' = <<>>
    /\ cur' = NewIteration
    /\ attempts' = <<>>
    /\ fate' = [n \in 1..Len(cli.files) |-> <<>>]
    /\ UNCHANGED <<db, lg, load, sds, fc, rule_seq, ruleSequence>>

(* Lines 67-72: sequence() returns and main logs that it has finished, or  *)
(* sequence() lets an exception through: line 71 handles an Exception, any *)
(* other ends the process.                                                 *)
SequenceEnds ==
    /\ cli.pc = "sequence"
    /\ pc \in {"done", "escaped"}
    /\ cli' = [cli EXCEPT !.pc = IF pc = "done" THEN "finished"
                                 ELSE IF IsException(exc.type) THEN "general_error"
                                 ELSE "killed",
                          !.owed = { f \in Range(cli.delfile) :
                                       ~ \E n \in DOMAIN fate : cli.files[n] = f /\ Completed(n) },
                          !.retry = { cli.files[n] : n \in { m \in DOMAIN fate : EarlierBad(m) } }]
    /\ pc' = "idle"
    /\ UNCHANGED <<db, lg, load, sds, fc, rule_seq, ruleSequence, total, i, k, c, alarm, armedFor, exc,
                   brk, out, cur, attempts, fate>>

(* The deletion manager is run again, with a new input list.               *)
RunAgain ==
    /\ cli.pc \in {"returned", "general_error", "finished", "killed"}
    /\ cli.run < MaxRuns
    /\ \E delfile \in SeqsUpTo(DelNames, MaxLines) :
          cli' = Invoked(cli.run + 1, cli.args, delfile, cli.owed, cli.retry)
    /\ ruleSequence' = <<>>
    /\ total' = 0
    /\ i' = 1
    /\ k' = 1
    /\ c' = 1
    /\ pc' = "idle"
    /\ alarm' = 0
    /\ armedFor' = <<0, 0>>
    /\ exc' = NoExc
    /\ brk' = FALSE
    /\ out' = <<>>
    /\ cur' = NewIteration
    /\ attempts' = <<>>
    /\ fate' = <<>>
    /\ UNCHANGED <<db, lg, load, sds, fc, rule_seq>>

DeletionNext ==
    \/ CheckParameters
    \/ SetUpRules
    \/ GetDeletionStatus
    \/ CollectPending
    \/ CollectNew
    \/ ApplySequence
    \/ cli.pc = "sequence" /\ Next
    \/ SequenceEnds
    \/ RunAgain

SpecDeletion == DeletionInit /\ [][DeletionNext]_vars

(* The items of the run whose file is f and that the rule loop has logged  *)
(* an outcome for.                                                         *)
Driven(f) == { n \in DOMAIN fate : cli.files[n] = f /\ fate[n] # <<>> }

(* C17: in a run of the deletion manager every filename of the input list  *)
(* has an entry in the deletion table when sequence() starts on the first  *)
(* item, and when the next run starts the table still has an entry for     *)
(* every input file whose pipeline did not complete.                       *)
C17_InputRecordedBeforePipeline ==
    /\ (cli.pc = "sequence" /\ pc = "item" /\ i = 1) =>
          \A f \in Range(cli.delfile) : Entries(f) = 1
    /\ (cli.pc = "main" /\ cli.run > 1) =>
          \A f \in cli.owed : Entries(f) = 1

(* C18: when a run of the deletion manager has finished, every file that   *)
(* had an entry in the deletion table when the run started and every file  *)
(* of the input list has been driven through the rule loop as exactly one  *)
(* item.                                                                   *)
C18_PendingAndInputDrivenOnce ==
    cli.pc = "finished" =>
       \A f \in cli.before \cup Range(cli.delfile) : Cardinality(Driven(f)) = 1

C19_RemovedOnlyByItsItem ==
    cli.pc # "none" =>
       \A f \in cli.before :
          Entries(f) = 0 =>
             \E n \in DOMAIN fate :
                /\ cli.files[n] = f
                /\ n <= i
                /\ ruleSequence[Len(ruleSequence)].ruleName = RemovalRule

----------------------------------------------------------------------------
(* SDSFile (src/orfeus/sdsfile.py): construction from a filename, the      *)
(* property filename, and the properties next and previous.  A string is   *)
(* the sequence of its characters.  The years and days of the filenames    *)
(* are strings of digits.                                                  *)

MaxDayLen == 3
MaxSteps == 2
MaxFields == 8

DigitChars == <<"0", "1", "2", "3", "4", "5", "6", "7", "8", "9">>

DigitValue(ch) == (CHOOSE v \in 1..10 : DigitChars[v] = ch) - 1

IsDigits(str) == \A n \in 1..Len(str) : \E v \in 1..10 : DigitChars[v] = str[n]

(* int(s) for a string of digits.                                          *)
RECURSIVE IntOf(_)
IntOf(str) ==
    IF str = <<>> THEN 0
    ELSE 10 * IntOf(SubSeq(str, 1, Len(str) - 1)) + DigitValue(str[Len(str)])

(* The decimal digits of n, without padding.                               *)
RECURSIVE StrOf(_)
StrOf(n) ==
    IF n < 10 THEN <<DigitChars[n + 1]>>
    ELSE Append(StrOf(n \div 10), DigitChars[(n % 10) + 1])

(* The decimal digits of n, padded with zeros to the given width.          *)
RECURSIVE ZeroPad(_, _)
ZeroPad(str, width) == IF Len(str) >= width THEN str ELSE ZeroPad(<<"0">> \o str, width)

(* filename.split("."): the fields between the dots.                       *)
RECURSIVE split(_)
split(str) ==
    IF \A n \in 1..Len(str) : str[n] # "."
    THEN <<str>>
    ELSE LET dot == CHOOSE n \in 1..Len(str) : str[n] = "." /\ \A m \in 1..(n - 1) : str[m] # "."
         IN  <<SubSeq(str, 1, dot - 1)>> \o split(SubSeq(str, dot + 1, Len(str)))

(* ".".join(fields).                                                       *)
RECURSIVE join(_)
join(fields) ==
    IF fields = <<>> THEN <<>>
    ELSE IF Len(fields) = 1 THEN fields[1]
    ELSE fields[1] \o <<".">> \o join(Tail(fields))

(* Faulty variant of SDSFile.__init__: the first seven fields are taken   *)
(* and the fields after them are dropped.                                  *)
SDSFileFirstSeven(file, archiveRoot) ==
    LET parts == split(file) IN
    IF Len(parts) < 7
    THEN [error |-> "ValueError", message |-> "Invalid SDS file submitted.", d |-> <<>>]
    ELSE [error |-> "none", message |-> "",
          d |-> [net |-> parts[1], sta |-> parts[2], loc |-> parts[3], cha |-> parts[4],
                 quality |-> parts[5], year |-> parts[6], day |-> parts[7],
                 archiveRoot |-> archiveRoot]]

(* SDSFile.__init__(filename, archiveRoot): the seven fields of the        *)
(* filename, or ValueError("Invalid SDS file submitted.").                 *)
SDSFile(file, archiveRoot) ==
    LET parts == split(file) IN
    IF Len(parts) # 7
    THEN [error |-> "ValueError", message |-> "Invalid SDS file submitted.", d |-> <<>>]
    ELSE [error |-> "none", message |-> "",
          d |-> [net |-> parts[1], sta |-> parts[2], loc |-> parts[3], cha |-> parts[4],
                 quality |-> parts[5], year |-> parts[6], day |-> parts[7],
                 archiveRoot |-> archiveRoot]]

(* SDSFile.filename.                                                       *)
filename(d) == join(<<d.net, d.sta, d.loc, d.cha, d.quality, d.year, d.day>>)

(* The datetime module: years MINYEAR..MAXYEAR, a date as its ordinal,     *)
(* the number of days since 0001-01-01 plus one.                           *)
MINYEAR == 1
MAXYEAR == 9999

IsLeap(year) == (year % 4 = 0 /\ year % 100 # 0) \/ year % 400 = 0

DaysIn(year) == IF IsLeap(year) THEN 366 ELSE 365

days_before_year(year) ==
    LET y == year - 1 IN y * 365 + (y \div 4) - (y \div 100) + (y \div 400)

MaxOrdinal == days_before_year(MAXYEAR + 1)

(* date.fromordinal(n): the year the ordinal falls in and the day of that  *)
(* year.                                                                   *)
fromordinal(n) ==
    LET year == CHOOSE y \in (n \div 366)..((n \div 365) + 1) :
                   /\ y >= MINYEAR
                   /\ days_before_year(y) < n
                   /\ n <= days_before_year(y + 1)
    IN  [year |-> year, yday |-> n - days_before_year(year)]

(* SDSFile.start: datetime.strptime(year + " " + day, "%Y %j").  %Y takes  *)
(* exactly four digits that are not 0000; %j takes one to three digits     *)
(* that make a number 1..366, and anything else in the string              *)
(* is an error.  The date is the day-th day counted from January 1 of the  *)
(* year, whether the year has that many days or not.                       *)
start(d) ==
    IF \/ ~IsDigits(d.year)
       \/ ~IsDigits(d.day)
       \/ Len(d.year) # 4
       \/ IntOf(d.year) < MINYEAR
       \/ Len(d.day) \notin 1..3
       \/ IntOf(d.day) \notin 1..366
    THEN [error |-> "ValueError", ordinal |-> 0]
    ELSE LET ordinal == days_before_year(IntOf(d.year)) + IntOf(d.day) IN
         IF ordinal > MaxOrdinal
         THEN [error |-> "ValueError", ordinal |-> 0]
         ELSE [error |-> "none", ordinal |-> ordinal]

(* newDate.strftime("%Y"): four digits; for a year below 1000 the C        *)
(* library of the platform decides whether it pads.                        *)
strftime_Y(date, padded) ==
    IF padded THEN ZeroPad(StrOf(date.year), 4) ELSE StrOf(date.year)

(* newDate.strftime("%j"): the day of the year in three digits.            *)
strftime_j(date) == ZeroPad(StrOf(date.yday), 3)

(* Faulty variant of __getAdjacentFile: the new file keeps the year of     *)
(* this one.                                                               *)
getAdjacentFileSameYear(d, direction, padded) ==
    LET s == start(d) IN
    IF s.error # "none" THEN [error |-> s.error, d |-> <<>>]
    ELSE IF s.ordinal + direction \notin 1..MaxOrdinal
    THEN [error |-> "OverflowError", d |-> <<>>]
    ELSE LET newDate == fromordinal(s.ordinal + direction)
             newFilename == join(<<d.net, d.sta, d.loc, d.cha, d.quality, d.year,
                                   strftime_j(newDate)>>)
         IN  SDSFile(newFilename, d.archiveRoot)

(* SDSFile.__getAdjacentFile(direction).                                   *)
__getAdjacentFile(d, direction, padded) ==
    LET s == start(d) IN
    IF s.error # "none" THEN [error |-> s.error, d |-> <<>>]
    ELSE IF s.ordinal + direction \notin 1..MaxOrdinal
    THEN [error |-> "OverflowError", d |-> <<>>]
    ELSE LET newDate == fromordinal(s.ordinal + direction)
             newYear == strftime_Y(newDate, padded)
             newDay == strftime_j(newDate)
             newFilename == join(<<d.net, d.sta, d.loc, d.cha, d.quality, newYear, newDay>>)
         IN  SDSFile(newFilename, d.archiveRoot)

(* The filenames SDSFile is made from.                                     *)
YearStrings ==
    { <<"0", "9", "9", "9">>, <<"1", "0", "0", "0">>, <<"1", "0", "0", "1">>,
      <<"1", "9", "6", "9">>, <<"1", "9", "7", "0">>, <<"2", "0", "1", "9">>,
      <<"2", "0", "2", "0">>, <<"9", "9", "9", "8">>, <<"9", "9", "9", "9">>,
      <<"9", "9", "9">> }

DayDigits == {"0", "1", "3", "5", "6", "7"}

DayStrings == UNION { [1..m -> DayDigits] : m \in 1..MaxDayLen }

Locations == { <<"0", "2">>, <<>> }

(* Fields of filenames that are not the name of a day file: an empty      *)
(* field, a field of one letter, a field with a slash.                     *)
OtherFields == { <<>>, <<"a">>, <<"/", "e">> }

OtherFilenames == { join(fields) : fields \in UNION { [1..n -> OtherFields] : n \in 1..MaxFields } }

ArchiveRoot == <<"/", "r">>

SdsInit ==
    /\ \/ \E year \in YearStrings, day \in DayStrings, loc \in Locations, padded \in BOOLEAN :
             sds = [NoFile EXCEPT !.padded = padded,
                                  !.archiveRoot = ArchiveRoot,
                                  !.filename = join(<<(<<"N", "L">>), <<"H", "G", "N">>, loc,
                                                      <<"B", "H", "Z">>, <<"D">>, year, day>>)]
       \/ \E file \in OtherFilenames \cup {<<>>} :
             sds = [NoFile EXCEPT !.archiveRoot = ArchiveRoot, !.filename = file]
    /\ fc = NoCollector
    /\ db = {}
    /\ lg = NoCalls
    /\ cli = NoRun
    /\ load = Loaded
    /\ ExecutorIdle

(* SDSFile(filename, archiveRoot) is called: it gives the descriptor or    *)
(* raises.                                                                 *)
__init__ ==
    /\ ~sds.made
    /\ LET r == SDSFile(sds.filename, sds.archiveRoot) IN
       sds' = [sds EXCEPT !.made = TRUE, !.d = r.d, !.before = r.d,
                          !.error = r.error, !.message = r.message]
    /\ UNCHANGED <<db, lg, cli, load, fc, execVars>>

(* A property of the descriptor is read: it gives the adjacent descriptor  *)
(* or raises.                                                              *)
Step(name, direction) ==
    /\ sds.made
    /\ sds.error = "none"
    /\ Len(sds.steps) < MaxSteps
    /\ LET r == __getAdjacentFile(sds.d, direction, sds.padded) IN
       sds' = [sds EXCEPT !.steps = Append(@, name),
                          !.before = sds.d,
                          !.d = IF r.error = "none" THEN r.d ELSE sds.d,
                          !.error = r.error]
    /\ UNCHANGED <<db, lg, cli, load, fc, execVars>>

(* SDSFile.next.                                                           *)
next == Step("next", 1)

(* SDSFile.previous.                                                       *)
previous == Step("previous", -1)

SdsNext ==
    \/ __init__
    \/ next
    \/ previous

SpecSds == SdsInit /\ [][SdsNext]_vars

(* The year and day of d name a day of the calendar in the canonical form: *)
(* a year of four digits, a day of three digits that the year has.  The    *)
(* first and the last year that strftime and strptime handle alike are     *)
(* left out.                                                               *)
CalendarDay(d) ==
    /\ Len(d.year) = 4
    /\ IntOf(d.year) \in 1001..9998
    /\ Len(d.day) = 3
    /\ IntOf(d.day) \in 1..DaysIn(IntOf(d.year))

(* The day of the calendar after and before day j of year y.               *)
DayAfter(y, j) == IF j < DaysIn(y) THEN <<y, j + 1>> ELSE <<y + 1, 1>>

DayBefore(y, j) == IF j > 1 THEN <<y, j - 1>> ELSE <<y - 1, DaysIn(y - 1)>>

(* The last step led from sds.before to sds.d, one day of the calendar     *)
(* away, with the other fields and the archive root as they were.          *)
OneDayApart ==
    LET y == IntOf(sds.before.year)
        j == IntOf(sds.before.day)
        day == IF sds.steps[Len(sds.steps)] = "next" THEN DayAfter(y, j) ELSE DayBefore(y, j)
    IN  /\ sds.error = "none"
        /\ sds.d = [sds.before EXCEPT !.year = ZeroPad(StrOf(day[1]), 4),
                                      !.day = ZeroPad(StrOf(day[2]), 3)]

RoundTrips == { <<"previous", "next">>, <<"next", "previous">> }

Origin == SDSFile(sds.filename, sds.archiveRoot).d

FieldCount(str) == Cardinality({ n \in 1..Len(str) : str[n] = "." }) + 1

(* C21: SDSFile(filename, archiveRoot) gives a descriptor exactly when the *)
(* filename has seven fields separated by dots, and then the property      *)
(* filename of the descriptor is the filename given; with any other number *)
(* of fields it raises ValueError("Invalid SDS file submitted.") and gives *)
(* no descriptor.                                                          *)
C21_SevenFieldsOrInvalid ==
    (sds.made /\ sds.steps = <<>>) =>
       IF FieldCount(sds.filename) = 7
       THEN /\ sds.error = "none"
            /\ filename(sds.d) = sds.filename
       ELSE /\ sds.error = "ValueError"
            /\ sds.message = "Invalid SDS file submitted."
            /\ sds.d = <<>>

(* A filename of eight fields has been refused.                            *)
C21_Witness ==
    /\ sds.made
    /\ FieldCount(sds.filename) = 8
    /\ sds.error = "ValueError"
    /\ sds.d = <<>>

(* A filename of seven fields, two of them empty, has been accepted.       *)
C21_WitnessAccepted ==
    /\ sds.made
    /\ sds.steps = <<>>
    /\ sds.error = "none"
    /\ sds.d.loc = <<>>
    /\ sds.d.day = <<>>
    /\ filename(sds.d) = sds.filename

----------------------------------------------------------------------------
(* The paths of an SDSFile.                                                *)

(* os.path.join(path, b): a component that starts with a slash replaces    *)
(* what is before it; a slash is put between the two unless the path is    *)
(* empty or ends with one.                                                 *)
os_path_join2(path, b) ==
    IF b # <<>> /\ b[1] = "/" THEN b
    ELSE IF path = <<>> \/ path[Len(path)] = "/" THEN path \o b
    ELSE path \o <<"/">> \o b

(* os.path.join(parts[1], ..., parts[n]).                                  *)
RECURSIVE os_path_join(_)
os_path_join(parts) ==
    IF Len(parts) = 1 THEN parts[1]
    ELSE os_path_join2(os_path_join(SubSeq(parts, 1, Len(parts) - 1)), parts[Len(parts)])

(* config["IRODS_ROOT"] and config["S3"]["PREFIX"], saved to the class.    *)
irodsRoot == <<"/", "z", "/">>

s3Prefix == <<"S", "D", "S">>

channelDirectory(d) == join(<<d.cha, d.quality>>)

subDirectory(d) == os_path_join(<<d.year, d.net, d.sta, channelDirectory(d)>>)

customDirectory(d, root) == os_path_join(<<root, subDirectory(d)>>)

customPath(d, root) == os_path_join(<<customDirectory(d, root), filename(d)>>)

filepath(d) == customPath(d, d.archiveRoot)

irodsPath(d) == customPath(d, irodsRoot)

s3Key(d) == os_path_join(<<s3Prefix, subDirectory(d), filename(d)>>)

(* The path is the root, a slash unless the root ends with one, and more.  *)
Below(root, path) ==
    LET dir == IF root[Len(root)] = "/" THEN root ELSE root \o <<"/">> IN
    /\ Len(path) > Len(dir)
    /\ SubSeq(path, 1, Len(dir)) = dir

IdentityFields(d) == <<d.net, d.sta, d.loc, d.cha, d.quality, d.year, d.day>>

HasSlash(str) == \E n \in 1..Len(str) : str[n] = "/"

(* C22: no field of a descriptor has a slash or is "..", and its filepath, *)
(* its iRODS path and its S3 key are below the archive root, the iRODS     *)
(* root and the S3 prefix; this holds for the descriptors that next and    *)
(* previous give as well.                                                  *)
C22_PathsBelowRoot ==
    (sds.made /\ sds.error = "none") =>
       /\ \A n \in 1..7 : ~HasSlash(IdentityFields(sds.d)[n])
                          /\ IdentityFields(sds.d)[n] # <<".", ".">>
       /\ Below(sds.d.archiveRoot, filepath(sds.d))
       /\ Below(irodsRoot, irodsPath(sds.d))
       /\ Below(s3Prefix, s3Key(sds.d))

(* C22, the part that holds: no field is "..", and the paths of a          *)
(* descriptor without a slash in its fields are below their roots.         *)
C22_BelowRootWithoutSlash ==
    (sds.made /\ sds.error = "none") =>
       /\ \A n \in 1..7 : IdentityFields(sds.d)[n] # <<".", ".">>
       /\ (\A n \in 1..7 : ~HasSlash(IdentityFields(sds.d)[n])) =>
             /\ Below(sds.d.archiveRoot, filepath(sds.d))
             /\ Below(irodsRoot, irodsPath(sds.d))
             /\ Below(s3Prefix, s3Key(sds.d))

----------------------------------------------------------------------------
(* SDSFile.stats, getStat, size, created, modified and checksum, while     *)
(* other processes remove and create the file of the descriptor.           *)

MaxReads == 2

StatFilenames ==
    { join(<<(<<"N", "L">>), <<"H", "G", "N">>, <<"0", "2">>, <<"B", "H", "Z">>, <<"D">>,
             <<"1", "9", "7", "0">>, <<"0", "0", "1">>>>),
      join(<<(<<"N", "L">>), <<"H", "G", "N">>, <<>>, <<"B", "H", "Z">>, <<"D">>,
             <<"2", "0", "2", "0">>, <<"3", "6", "6">>>>) }

StatInit ==
    /\ \E file \in StatFilenames, onDisk \in BOOLEAN, padded \in BOOLEAN :
          sds = [NoFile EXCEPT !.filename = file, !.archiveRoot = ArchiveRoot,
                               !.onDisk = onDisk, !.padded = padded]
    /\ fc = NoCollector
    /\ db = {}
    /\ lg = NoCalls
    /\ cli = NoRun
    /\ load = Loaded
    /\ ExecutorIdle

(* SDSFile.stats: os.stat(self.filepath), None for FileNotFoundError.      *)
stats(onDisk) == IF onDisk THEN "stat_result" ELSE "None"

Reading(prop) ==
    /\ sds.made
    /\ sds.error = "none"
    /\ sds.read.pc \in {"idle", "done"}
    /\ sds.reads < MaxReads

(* getStat(enum), called by size, created and modified:                    *)
(* `if self.stats is None: return None`.                                   *)
GetStatCheck ==
    \E enum \in {"size", "created", "modified"} :
       /\ Reading(enum)
       /\ sds' = [sds EXCEPT !.reads = @ + 1,
                             !.read = IF stats(sds.onDisk) = "None"
                                      THEN [prop |-> enum, pc |-> "done", result |-> "None",
                                            gone |-> TRUE]
                                      ELSE [prop |-> enum, pc |-> "checked", result |-> "none",
                                            gone |-> FALSE]]
       /\ UNCHANGED <<db, lg, cli, load, fc, execVars>>

(* getStat(enum): self.stats.st_size, st_ctime or st_mtime; self.stats is  *)
(* a property, so os.stat is called again, and an attribute of None is an  *)
(* AttributeError.                                                         *)
GetStatRead ==
    /\ sds.read.pc = "checked"
    /\ sds.read.prop # "checksum"
    /\ sds' = [sds EXCEPT !.read.pc = "done",
                          !.read.gone = ~sds.onDisk,
                          !.read.result = IF stats(sds.onDisk) = "None" THEN "AttributeError"
                                          ELSE "value"]
    /\ UNCHANGED <<db, lg, cli, load, fc, execVars>>

(* checksum: `if self.stats is None: return None`.                         *)
ChecksumCheck ==
    /\ Reading("checksum")
    /\ sds' = [sds EXCEPT !.reads = @ + 1,
                          !.read = IF stats(sds.onDisk) = "None"
                                   THEN [prop |-> "checksum", pc |-> "done", result |-> "None",
                                         gone |-> TRUE]
                                   ELSE [prop |-> "checksum", pc |-> "checked",
                                         result |-> "none", gone |-> FALSE]]
    /\ UNCHANGED <<db, lg, cli, load, fc, execVars>>

(* checksum: open(self.filepath, "rb") and the digest of what is read.     *)
ChecksumRead ==
    /\ sds.read.pc = "checked"
    /\ sds.read.prop = "checksum"
    /\ sds' = [sds EXCEPT !.read.pc = "done",
                          !.read.gone = ~sds.onDisk,
                          !.read.result = IF sds.onDisk THEN "value" ELSE "FileNotFoundError"]
    /\ UNCHANGED <<db, lg, cli, load, fc, execVars>>

(* Another process removes the file, or creates it.                        *)
FileRemoved ==
    /\ sds.made
    /\ sds.onDisk
    /\ sds' = [sds EXCEPT !.onDisk = FALSE]
    /\ UNCHANGED <<db, lg, cli, load, fc, execVars>>

FileCreated ==
    /\ sds.made
    /\ ~sds.onDisk
    /\ sds' = [sds EXCEPT !.onDisk = TRUE]
    /\ UNCHANGED <<db, lg, cli, load, fc, execVars>>

StatNext ==
    \/ __init__
    \/ GetStatCheck
    \/ GetStatRead
    \/ ChecksumCheck
    \/ ChecksumRead
    \/ FileRemoved
    \/ FileCreated
    \/ sds.read.pc # "checked" /\ next
    \/ sds.read.pc # "checked" /\ previous

SpecStat == StatInit /\ [][StatNext]_vars

(* C23: a property among size, created, modified and checksum that finds   *)
(* the file of the descriptor not on disk, at its check or after it, gives *)
(* None and does not raise; filename and paths stay defined and next and   *)
(* previous can be read.                                                   *)
C23_AbsentIsNone ==
    /\ (sds.read.pc = "done" /\ sds.read.gone) => sds.read.result = "None"
    /\ (sds.made /\ sds.error = "none" /\ ~sds.onDisk) =>
          /\ filename(sds.d) # <<>>
          /\ Below(sds.d.archiveRoot, filepath(sds.d))
          /\ __getAdjacentFile(sds.d, 1, sds.padded).error = "none"
          /\ __getAdjacentFile(sds.d, -1, sds.padded).error = "none"

(* C23, the part that holds: a property that finds the file not on disk at *)
(* its check gives None, and one that finds it on disk at its check and    *)
(* after gives a value.                                                    *)
C23_AbsentAtCheckIsNone ==
    sds.read.pc = "done" =>
       /\ sds.read.result = "None" => sds.read.gone
       /\ sds.read.result = "value" => ~sds.read.gone
       /\ sds.read.result \in {"AttributeError", "FileNotFoundError"} => sds.read.gone

----------------------------------------------------------------------------
(* FileCollector and SDSFileCollector: the scan of the archive directory   *)
(* when the collector is made, and the filters and the sort of its files.  *)
(* An entry of self.files is an SDSFile object: id tells the objects       *)
(* apart (SDSFile defines neither __eq__ nor __hash__, so a set holds      *)
(* objects by identity), d is the descriptor, modified is the value of     *)
(* its property modified: found tells a datetime from None, which it is    *)
(* when there is no file at its filepath, and minutes is the datetime, in  *)
(* minutes since 0001-01-01 00:00.                                         *)

MaxScan == 2
MaxCalls == 2
MaxDays == 2

MinutesPerDay == 1440

None == [found |-> FALSE, minutes |-> 0]

(* datetime(year, 1, 1) + timedelta(days = yday - 1, minutes = minute).    *)
Datetime(year, yday, minute) ==
    [found |-> TRUE, minutes |-> (days_before_year(year) + yday - 1) * MinutesPerDay + minute]

(* date(year, 1, 1) + timedelta(days = yday - 1), as an ordinal.           *)
Ordinal(year, yday) == days_before_year(year) + yday

DayFile(cha, year, day) ==
    join(<<(<<"N", "L">>), <<"H", "G", "N">>, <<>>, cha, <<"D">>, year, day>>)

BHZ_2019_001 == DayFile(<<"B", "H", "Z">>, <<"2", "0", "1", "9">>, <<"0", "0", "1">>)
LHZ_2019_001 == DayFile(<<"L", "H", "Z">>, <<"2", "0", "1", "9">>, <<"0", "0", "1">>)
BHZ_2018_365 == DayFile(<<"B", "H", "Z">>, <<"2", "0", "1", "8">>, <<"3", "6", "5">>)
NoDay == join(<<(<<"N", "L">>), <<"H", "G", "N">>, <<>>, <<"B", "H", "Z">>, <<"D">>,
                <<"2", "0", "1", "9">>>>)

(* What os.walk can find: files named as day files, at their filepath or   *)
(* in another directory of the archive, and a file that is not named as a  *)
(* day file.  The same name can be found in several directories.           *)
TreeEntries ==
    { [name |-> BHZ_2019_001, modified |-> Datetime(2019, 2, 30)],
      [name |-> LHZ_2019_001, modified |-> None],
      [name |-> BHZ_2018_365, modified |-> Datetime(2019, 1, 600)],
      [name |-> NoDay, modified |-> None] }

Trees == UNION { [1..n -> TreeEntries] : n \in 0..MaxScan }

(* fnmatch.translate: the index of the "]" that closes the "[" at the head *)
(* of pat, 0 when there is none.  A "!" and then a "]" right after the     *)
(* "[" do not close it.                                                    *)
ClosingBracket(pat) ==
    LET n == Len(pat)
        j1 == IF n >= 2 /\ pat[2] = "!" THEN 3 ELSE 2
        j2 == IF j1 <= n /\ pat[j1] = "]" THEN j1 + 1 ELSE j1
        closing == { j \in j2..n : pat[j] = "]" }
    IN  IF closing = {} THEN 0 ELSE CHOOSE j \in closing : \A m \in closing : j <= m

(* fnmatch(name, pat) on a POSIX system: "*" is any string, "?" is any     *)
(* character, "[seq]" is a character of seq, "[!seq]" is a character not   *)
(* in seq, a "[" that is not closed and any other character are            *)
(* themselves; the whole name has to match.  Ranges ("a-z") are not        *)
(* modelled: no pattern of the model holds "-".                            *)
RECURSIVE fnmatch(_, _)
fnmatch(name, pat) ==
    IF pat = <<>> THEN name = <<>>
    ELSE IF Head(pat) = "*"
    THEN fnmatch(name, Tail(pat)) \/ (name # <<>> /\ fnmatch(Tail(name), pat))
    ELSE IF name = <<>> THEN FALSE
    ELSE IF Head(pat) = "?" THEN fnmatch(Tail(name), Tail(pat))
    ELSE IF Head(pat) = "[" /\ ClosingBracket(pat) # 0
    THEN LET j == ClosingBracket(pat)
             negate == pat[2] = "!"
             stuff == IF negate THEN SubSeq(pat, 3, j - 1) ELSE SubSeq(pat, 2, j - 1)
             member == \E n \in 1..Len(stuff) : stuff[n] = Head(name)
         IN  (member # negate) /\ fnmatch(Tail(name), SubSeq(pat, j + 1, Len(pat)))
    ELSE Head(name) = Head(pat) /\ fnmatch(Tail(name), Tail(pat))

(* The characters of the filenames of the model, in the order of their     *)
(* code points.                                                            *)
CodePoints == <<".", "0", "1", "2", "3", "4", "5", "6", "7", "8", "9",
                "B", "D", "G", "H", "L", "N", "Z">>

ord(ch) == CHOOSE n \in 1..Len(CodePoints) : CodePoints[n] = ch

(* a < b for two str.                                                      *)
RECURSIVE StrLess(_, _)
StrLess(a, b) ==
    IF b = <<>> THEN FALSE
    ELSE IF a = <<>> THEN TRUE
    ELSE IF Head(a) = Head(b) THEN StrLess(Tail(a), Tail(b))
    ELSE ord(Head(a)) < ord(Head(b))

(* FileCollector.collect_all_files: the basenames of the files below       *)
(* archive_dir, in the order of os.walk.                                   *)
collect_all_files(tree) == [n \in 1..Len(tree) |-> tree[n].name]

(* SDSFileCollector.__init__: an SDSFile for every basename that SDSFile   *)
(* accepts.                                                                *)
sds_files(tree, archive_dir) ==
    LET names == collect_all_files(tree)
        Accepted(n) == SDSFile(names[n], archive_dir).error = "none"
        kept == SelectSeq([n \in 1..Len(names) |-> n], Accepted)
    IN  [m \in 1..Len(kept) |->
            [id |-> kept[m],
             d |-> SDSFile(names[kept[m]], archive_dir).d,
             modified |-> tree[kept[m]].modified]]

(* The outcome of a method that gives a list of files or raises.           *)
Gives(files) == [raised |-> "none", files |-> files]
Raises(exception) == [raised |-> exception, files |-> <<>>]

(* i_date + timedelta(days=day) and the methods of the date it gives.      *)
PlusDays(i_date, day) ==
    IF i_date + day \in 1..MaxOrdinal THEN [error |-> "none", date |-> i_date + day]
    ELSE [error |-> "OverflowError", date |-> 0]

(* SDSFileCollector._collect_from_date.  Comparing None with a datetime is *)
(* a TypeError.                                                            *)
_collect_from_date(files, i_date, mode) ==
    IF mode = "file_name"
    THEN LET day == strftime_j(fromordinal(i_date))
             year == strftime_Y(fromordinal(i_date), FALSE)
             OfDate(x) == x.d.day = day /\ x.d.year = year
         IN  Gives(SelectSeq(files, OfDate))
    ELSE IF mode = "mod_time"
    THEN LET date_start == (i_date - 1) * MinutesPerDay
             date_end == date_start + MinutesPerDay
             Within(x) == x.modified.minutes >= date_start /\ x.modified.minutes < date_end
         IN  IF \E n \in 1..Len(files) : ~files[n].modified.found
             THEN Raises("TypeError")
             ELSE Gives(SelectSeq(files, Within))
    ELSE Raises("ValueError")

(* Faulty variant of _collect_from_wildcards: the number of fields of the  *)
(* pattern is not checked.                                                 *)
_collect_from_wildcards_unchecked(files, pat) ==
    LET Fits(x) == fnmatch(filename(x.d), pat) IN Gives(SelectSeq(files, Fits))

(* SDSFileCollector._collect_from_wildcards.                               *)
_collect_from_wildcards(files, pat) ==
    IF Len(split(pat)) # 7 THEN Raises("ValueError")
    ELSE LET Fits(x) == fnmatch(filename(x.d), pat) IN Gives(SelectSeq(files, Fits))

(* Faulty variant of the loop of filter_from_wildcards_array: only the     *)
(* first pattern is used.                                                  *)
collected_from_first_wildcards(files, wildcards_array) ==
    IF wildcards_array = <<>> THEN Gives(<<>>)
    ELSE _collect_from_wildcards(files, Head(wildcards_array))

(* The loop of filter_from_wildcards_array: collected_files, unless a      *)
(* pattern makes _collect_from_wildcards raise.                            *)
RECURSIVE collected_from_wildcards(_, _)
collected_from_wildcards(files, wildcards_array) ==
    IF wildcards_array = <<>> THEN Gives(<<>>)
    ELSE LET first == _collect_from_wildcards(files, Head(wildcards_array)) IN
         IF first.raised # "none" THEN first
         ELSE LET rest == collected_from_wildcards(files, Tail(wildcards_array)) IN
              IF rest.raised # "none" THEN rest
              ELSE Gives(first.files \o rest.files)

(* list(set(...)): the objects of the set, each once, in an order that     *)
(* their hashes (their addresses) decide.                                  *)
Listings(set) ==
    { seq \in [1..Cardinality(set) -> set] : \A m, n \in 1..Cardinality(set) : m # n => seq[m] # seq[n] }

(* The loop of filter_from_date_range over range(start, stop).             *)
RECURSIVE collected_from_dates(_, _, _, _, _)
collected_from_dates(files, i_date, day, stop, mode) ==
    IF day >= stop THEN Gives(<<>>)
    ELSE LET date == PlusDays(i_date, day) IN
         IF date.error # "none" THEN Raises(date.error)
         ELSE LET first == _collect_from_date(files, date.date, mode) IN
              IF first.raised # "none" THEN first
              ELSE LET rest == collected_from_dates(files, i_date, day + 1, stop, mode) IN
                   IF rest.raised # "none" THEN rest
                   ELSE Gives(first.files \o rest.files)

(* SDSFileCollector.filter_from_date_range, as what self.files becomes.    *)
from_date_range(files, i_date, days, mode) ==
    IF days > 0 THEN collected_from_dates(files, i_date, 0, days, mode)
    ELSE collected_from_dates(files, i_date, days, 0, mode)

(* Faulty variant of filter_from_file_list: as many files as the list has  *)
(* names are kept, from the head of self.files.                            *)
from_file_list_by_count(files, file_list) ==
    SubSeq(files, 1, IF Cardinality(file_list) < Len(files) THEN Cardinality(file_list)
                     ELSE Len(files))

(* Faulty variant of filter_from_file_list: the directory is scanned       *)
(* again.                                                                  *)
from_file_list_scanning(files, file_list) ==
    LET Listed(x) == filename(x.d) \in file_list IN
    SelectSeq(sds_files(fc.tree, ArchiveRoot), Listed)

(* SDSFileCollector.filter_from_file_list, as what self.files becomes.     *)
from_file_list(files, file_list) ==
    LET Listed(x) == filename(x.d) \in file_list IN SelectSeq(files, Listed)

(* SDSFileCollector.filter_finished_files, as what self.files becomes.     *)
finished_files(files, utcnow, tolerance) ==
    LET timestamp == (utcnow - 1) * MinutesPerDay + tolerance
        Finished(x) == x.modified.minutes < timestamp
    IN  IF \E n \in 1..Len(files) : ~files[n].modified.found
        THEN Raises("TypeError")
        ELSE Gives(SelectSeq(files, Finished))

(* sorted(files, key=filename, reverse=...): a stable sort, and one that   *)
(* keeps the order of equal keys when reversed.                            *)
RECURSIVE sorted(_, _)
sorted(files, reverse) ==
    IF files = <<>> THEN <<>>
    ELSE LET Before(x, y) == IF reverse THEN StrLess(filename(y.d), filename(x.d))
                             ELSE StrLess(filename(x.d), filename(y.d))
             first == CHOOSE n \in 1..Len(files) :
                         /\ \A m \in 1..Len(files) : ~Before(files[m], files[n])
                         /\ \A m \in 1..(n - 1) : Before(files[n], files[m])
             others == [m \in 1..(Len(files) - 1) |-> IF m < first THEN files[m] ELSE files[m + 1]]
         IN  <<files[first]>> \o sorted(others, reverse)

(* What the methods are called with.                                       *)
Patterns ==
    [some_channel |-> DayFile(<<"?", "H", "Z">>, <<"2", "0", "1", "9">>, <<"0", "0", "1">>),
     some_day     |-> DayFile(<<"B", "H", "Z">>, <<"2", "0", "1", "9">>, <<"*">>),
     not_B        |-> DayFile(<<"[", "!", "B", "]", "H", "Z">>, <<"2", "0", "1", "9">>,
                              <<"0", "0", "[", "1", "2", "]">>),
     no_day       |-> NoDay,
     anything     |-> <<"*">>]

WildcardsArrays ==
    { <<>>,
      <<Patterns.some_channel>>,
      <<Patterns.some_channel, Patterns.some_day>>,
      <<Patterns.some_day, Patterns.not_B>>,
      <<Patterns.some_day, Patterns.no_day>>,
      <<Patterns.anything>> }

Dates == { Ordinal(2019, 1) }

Modes == { "file_name", "mod_time", "size" }

FileLists == { {BHZ_2019_001}, {BHZ_2019_001, LHZ_2019_001, NoDay} }

Tolerances == { 0, 60 }

CollectorInit ==
    /\ \E tree \in Trees : fc = [NoCollector EXCEPT !.tree = tree]
    /\ sds = NoFile
    /\ db = {}
    /\ lg = NoCalls
    /\ cli = NoRun
    /\ load = Loaded
    /\ ExecutorIdle

(* SDSFileCollector.__init__(archive_dir).                                 *)
SDSFileCollector ==
    /\ ~fc.made
    /\ LET sds_files_ == sds_files(fc.tree, ArchiveRoot) IN
       fc' = [fc EXCEPT !.made = TRUE, !.walked = Len(fc.tree), !.scanned = sds_files_,
                        !.files = sds_files_, !.before = sds_files_]
    /\ UNCHANGED <<db, lg, cli, load, sds, execVars>>

(* Another process writes a day file at its filepath below archive_dir     *)
(* after the scan; one such file is followed.                              *)
FileArrives ==
    /\ fc.made
    /\ Len(fc.tree) = fc.walked
    /\ Len(fc.tree) < MaxScan
    /\ \E entry \in TreeEntries :
          /\ entry.modified.found
          /\ fc' = [fc EXCEPT !.tree = Append(@, entry)]
    /\ UNCHANGED <<db, lg, cli, load, sds, execVars>>

(* A call of a method on the collector: self.files is assigned when the    *)
(* method does not raise.                                                  *)
CollectorCall(op, args, outcome) ==
    /\ fc.made
    /\ fc.calls < MaxCalls
    /\ fc' = [fc EXCEPT !.calls = @ + 1,
                        !.before = fc.files,
                        !.last = [op |-> op, args |-> args, raised |-> outcome.raised],
                        !.files = IF outcome.raised = "none" THEN outcome.files ELSE fc.files]
    /\ UNCHANGED <<db, lg, cli, load, sds, execVars>>

filter_from_wildcards_array ==
    \E wildcards_array \in WildcardsArrays :
       LET collected_files == collected_from_wildcards(fc.files, wildcards_array) IN
       IF collected_files.raised # "none"
       THEN CollectorCall("filter_from_wildcards_array", <<wildcards_array>>, collected_files)
       ELSE \E listing \in Listings(Range(collected_files.files)) :
               CollectorCall("filter_from_wildcards_array", <<wildcards_array>>, Gives(listing))

filter_finished_files ==
    \E tolerance \in Tolerances :
       CollectorCall("filter_finished_files", <<tolerance>>,
              finished_files(fc.files, Ordinal(2019, 2), tolerance))

filter_from_date_range ==
    \E i_date \in Dates, days \in (0 - MaxDays)..MaxDays, mode \in Modes :
       CollectorCall("filter_from_date_range", <<i_date, days, mode>>,
              from_date_range(fc.files, i_date, days, mode))

(* filter_from_past_days(days, mode): filter_from_date_range(now, -days).  *)
filter_from_past_days ==
    \E days \in 0..MaxDays, mode \in {"file_name"} :
       CollectorCall("filter_from_past_days", <<days, mode>>,
              from_date_range(fc.files, Ordinal(2019, 2), 0 - days, mode))

filter_from_file_list ==
    \E file_list \in FileLists :
       CollectorCall("filter_from_file_list", <<file_list>>, Gives(from_file_list(fc.files, file_list)))

sort_files ==
    \E order \in {"asc", "desc"} :
       CollectorCall("sort_files", <<order>>, Gives(sorted(fc.files, order = "desc")))

CollectorNext ==
    \/ SDSFileCollector
    \/ FileArrives
    \/ filter_from_wildcards_array
    \/ filter_finished_files
    \/ filter_from_date_range
    \/ filter_from_past_days
    \/ filter_from_file_list
    \/ sort_files

SpecCollector == CollectorInit /\ [][CollectorNext]_vars

CollectorTypeOK ==
    /\ fc.calls \in 0..MaxCalls
    /\ \A n \in 1..Len(fc.files) : fc.files[n].id \in 1..Len(fc.tree)

(* The patterns of a call that the filename of x matches.                  *)
Matched(x, wildcards_array) ==
    { n \in 1..Len(wildcards_array) : fnmatch(filename(x.d), wildcards_array[n]) }

(* filter_from_wildcards_array has returned.                               *)
WildcardsFiltered ==
    /\ fc.last.op = "filter_from_wildcards_array"
    /\ fc.last.raised = "none"

(* What the glob patterns of the model match, as the tests of the          *)
(* collector have it.                                                      *)
GlobExamples ==
    /\ fnmatch(BHZ_2019_001, Patterns.some_channel)
    /\ fnmatch(LHZ_2019_001, Patterns.some_channel)
    /\ ~fnmatch(BHZ_2018_365, Patterns.some_channel)
    /\ fnmatch(BHZ_2019_001, Patterns.some_day)
    /\ ~fnmatch(LHZ_2019_001, Patterns.some_day)
    /\ ~fnmatch(BHZ_2018_365, Patterns.some_day)
    /\ fnmatch(LHZ_2019_001, Patterns.not_B)
    /\ ~fnmatch(BHZ_2019_001, Patterns.not_B)
    /\ fnmatch(NoDay, Patterns.anything)

(* C24: when filter_from_wildcards_array returns, the files of the         *)
(* collector are those of the files it had whose filename matches at least *)
(* one pattern of the call, each once: a file that matches no pattern is   *)
(* dropped, a file that matches several is kept.                           *)
C24_KeepsFilesMatchingSomePattern ==
    /\ GlobExamples
    /\ WildcardsFiltered =>
          /\ Range(fc.files) = { x \in Range(fc.before) : Matched(x, fc.last.args[1]) # {} }
          /\ Cardinality(Range(fc.files)) = Len(fc.files)

(* A call with two patterns has kept a file that matches both and dropped  *)
(* a file that matches none.                                               *)
C24_Witness ==
    /\ WildcardsFiltered
    /\ \E x \in Range(fc.files) : Cardinality(Matched(x, fc.last.args[1])) > 1
    /\ \E x \in Range(fc.before) : Matched(x, fc.last.args[1]) = {} /\ x \notin Range(fc.files)

(* C25: when filter_from_wildcards_array returns, no two files of the      *)
(* collector have the same filename.                                       *)
C25_NoTwoFilesWithOneFilename ==
    WildcardsFiltered =>
       \A m, n \in 1..Len(fc.files) :
          m # n => filename(fc.files[m].d) # filename(fc.files[n].d)

(* C25, the part that holds: no SDSFile object is twice among the files,   *)
(* and two files with one filename come from two files of the directory    *)
(* tree.                                                                   *)
C25_NoObjectTwice ==
    WildcardsFiltered =>
       \A m, n \in 1..Len(fc.files) : m # n => fc.files[m].id # fc.files[n].id

(* The patterns of a call that do not have seven fields.                   *)
NotSevenFields(wildcards_array) ==
    { n \in 1..Len(wildcards_array) : Len(split(wildcards_array[n])) # 7 }

(* C26: a call of filter_from_wildcards_array with a pattern that does not *)
(* have seven fields between dots raises ValueError and leaves the files   *)
(* of the collector as they were, wherever the pattern is in the array;    *)
(* a call without such a pattern does not raise.                           *)
C26_InvalidPatternRejected ==
    fc.last.op = "filter_from_wildcards_array" =>
       IF NotSevenFields(fc.last.args[1]) # {}
       THEN fc.last.raised = "ValueError" /\ fc.files = fc.before
       ELSE fc.last.raised = "none"

(* A call whose second pattern is the one without seven fields, and whose  *)
(* first pattern matches one of two files, has been rejected; and so has   *)
(* a call with "*".                                                        *)
C26_Witness ==
    /\ fc.last.op = "filter_from_wildcards_array"
    /\ fc.last.raised = "ValueError"
    /\ NotSevenFields(fc.last.args[1]) = {2}
    /\ Len(fc.files) = 2
    /\ Cardinality({ x \in Range(fc.files) : Matched(x, fc.last.args[1]) # {} }) = 1

(* The days of filter_from_date_range(i_date, days), as ordinals.          *)
DateRange(i_date, days) ==
    IF days > 0 THEN i_date..(i_date + days - 1)
    ELSE IF days < 0 THEN (i_date + days)..(i_date - 1)
    ELSE {}

(* The day of a file, as an ordinal: the day that its filename names, or   *)
(* the day it was modified; 0 when it has none.                            *)
FileDate(x, mode) ==
    IF mode = "file_name"
    THEN (IF start(x.d).error = "none" THEN start(x.d).ordinal ELSE 0)
    ELSE (IF x.modified.found THEN (x.modified.minutes \div MinutesPerDay) + 1 ELSE 0)

(* filter_from_date_range has been called with one of its two modes.       *)
DateRangeCalled ==
    /\ fc.last.op = "filter_from_date_range"
    /\ fc.last.args[3] \in {"file_name", "mod_time"}

FilesOfDateRange ==
    { x \in Range(fc.before) :
         FileDate(x, fc.last.args[3]) \in DateRange(fc.last.args[1], fc.last.args[2]) }

(* C27: filter_from_date_range(i_date, days, mode) with mode file_name or  *)
(* mod_time returns and leaves exactly the files whose day, named by the   *)
(* filename or that of the modification, is one of the days from i_date on *)
(* when days > 0, one of the -days days before i_date when days < 0, and   *)
(* no file when days = 0.                                                  *)
C27_KeepsFilesOfDateRange ==
    DateRangeCalled =>
       /\ fc.last.raised = "none"
       /\ Range(fc.files) = FilesOfDateRange
       /\ Cardinality(Range(fc.files)) = Len(fc.files)

(* C27, the part that holds: the same, for mode file_name, and for mode    *)
(* mod_time when days = 0 or every file of the collector has a             *)
(* modification time; otherwise mode mod_time raises TypeError and leaves  *)
(* the files as they were.                                                 *)
C27_KeepsFilesOfDateRangeIfModified ==
    DateRangeCalled =>
       IF \/ fc.last.args[3] = "file_name"
          \/ fc.last.args[2] = 0
          \/ \A x \in Range(fc.before) : x.modified.found
       THEN /\ fc.last.raised = "none"
            /\ Range(fc.files) = FilesOfDateRange
            /\ Cardinality(Range(fc.files)) = Len(fc.files)
       ELSE fc.last.raised = "TypeError" /\ fc.files = fc.before

(* filter_from_date_range has been called with a mode that is neither      *)
(* file_name nor mod_time.                                                 *)
OtherModeCalled ==
    /\ fc.last.op = "filter_from_date_range"
    /\ fc.last.args[3] \notin {"file_name", "mod_time"}

(* C28: filter_from_date_range with a mode that is neither file_name nor   *)
(* mod_time raises ValueError, whatever days is, and leaves the files of   *)
(* the collector as they were.                                             *)
C28_OtherModeRejected ==
    OtherModeCalled => fc.last.raised = "ValueError" /\ fc.files = fc.before

(* C28, the part that holds: so it is when days is not 0; with days = 0    *)
(* the mode is never looked at, the call returns and the collector has no  *)
(* file left.                                                              *)
C28_OtherModeRejectedUnlessNoDays ==
    OtherModeCalled =>
       IF fc.last.args[2] # 0
       THEN fc.last.raised = "ValueError" /\ fc.files = fc.before
       ELSE fc.last.raised = "none" /\ fc.files = <<>>

(* The filenames of a list of files, as a set and in the order of the      *)
(* list.                                                                   *)
Filenames(files) == { filename(files[n].d) : n \in 1..Len(files) }

FilenameList(files) == [n \in 1..Len(files) |-> filename(files[n].d)]

(* The arrays of patterns that filter_from_wildcards_array accepts.        *)
ValidArrays == { w \in WildcardsArrays : NotSevenFields(w) = {} }

(* What self.files can be after filter_from_wildcards_array(w).            *)
AfterWildcards(files, w) == Listings(Range(collected_from_wildcards(files, w).files))

(* What self.files is after filter_from_date_range in mode file_name.      *)
AfterDateRange(files, i_date, days) == from_date_range(files, i_date, days, "file_name").files

(* C29: from any list of files that the collector can start with,          *)
(* filter_from_wildcards_array and then filter_from_file_list leave files  *)
(* with the same filenames as the two in the other order, and so do        *)
(* filter_from_wildcards_array and                                         *)
(* filter_from_date_range in mode file_name; sort_files changes no set of  *)
(* filenames, and after it the order of the filenames is the same for both *)
(* orders of the filters.                                                  *)
C29_FiltersCommuteAsSets ==
    (fc.made /\ fc.calls = 0) =>
       \A w \in ValidArrays :
          /\ \A file_list \in FileLists :
                \A first \in AfterWildcards(fc.files, w),
                   second \in AfterWildcards(from_file_list(fc.files, file_list), w) :
                   /\ Filenames(from_file_list(first, file_list)) = Filenames(second)
                   /\ \A reverse \in BOOLEAN :
                         /\ Filenames(sorted(second, reverse)) = Filenames(second)
                         /\ FilenameList(sorted(from_file_list(first, file_list), reverse))
                               = FilenameList(sorted(second, reverse))
          /\ \A i_date \in Dates, days \in (0 - MaxDays)..MaxDays :
                \A first \in AfterWildcards(fc.files, w),
                   second \in AfterWildcards(AfterDateRange(fc.files, i_date, days), w) :
                   Filenames(AfterDateRange(first, i_date, days)) = Filenames(second)

(* filter_from_wildcards_array has dropped a file of the scan and          *)
(* filter_from_file_list has then dropped another, and the two in the      *)
(* other order leave the same filenames.                                   *)
C29_Witness ==
    /\ fc.calls = 2
    /\ fc.last.op = "filter_from_file_list"
    /\ Filenames(fc.files) # Filenames(fc.before)
    /\ Filenames(fc.before) # Filenames(fc.scanned)
    /\ \E w \in ValidArrays :
          /\ fc.before \in AfterWildcards(fc.scanned, w)
          /\ \E second \in AfterWildcards(from_file_list(fc.scanned, fc.last.args[1]), w) :
                Filenames(second) = Filenames(fc.files)

(* The files that have come to the directory after the scan, as indices   *)
(* of the tree.                                                            *)
Arrived == (fc.walked + 1)..Len(fc.tree)

(* C30: the files of the collector are files of the scan that __init__     *)
(* made, and among those it had before its last call, each at most once:   *)
(* a call only removes files, and a file that a call has removed is not    *)
(* there after a later call, whatever has come to the directory since.     *)
C30_FilesAreOfTheOneScan ==
    fc.made =>
       /\ Range(fc.files) \subseteq Range(fc.before)
       /\ Range(fc.before) \subseteq Range(fc.scanned)
       /\ \A m, n \in 1..Len(fc.files) : m # n => fc.files[m].id # fc.files[n].id
       /\ fc.scanned = sds_files(SubSeq(fc.tree, 1, fc.walked), ArchiveRoot)

(* After the scan a file has come to the directory; a first call has       *)
(* removed a file and filter_from_file_list has then been called with the  *)
(* names of the file that came and of the file that was removed: neither   *)
(* is among the files.                                                     *)
C30_Witness ==
    /\ fc.calls = 2
    /\ fc.last.op = "filter_from_file_list"
    /\ \E n \in Arrived : fc.tree[n].name \in fc.last.args[1]
    /\ \E x \in Range(fc.scanned) :
          /\ x \notin Range(fc.before)
          /\ filename(x.d) \in fc.last.args[1]
          /\ x \notin Range(fc.files)

----------------------------------------------------------------------------
(* The conditions of src/conditions/sdsconditions.py on an SDSFile, while  *)
(* other processes remove and create the files of the SDSFile and of its   *)
(* neighbours.                                                             *)

MaxConds == 1

Neighbors == {"previous", "current", "next"}

(* datetime.now(), and the times that files were modified at: a day as an  *)
(* ordinal and a minute of the day.                                        *)
now == [day |-> Ordinal(2019, 10), minute |-> 720]

ModificationTimes ==
    { [day |-> Ordinal(2019, 10), minute |-> 600],
      [day |-> Ordinal(2019, 7), minute |-> 720],
      [day |-> Ordinal(2019, 1), minute |-> 0] }

DaysOptions == { 0 - 1, 0, 3, 1000000 }

(* a < b for two datetime.                                                 *)
Earlier(a, b) == a.day < b.day \/ (a.day = b.day /\ a.minute < b.minute)

(* datetime.now() - timedelta(days=days).                                  *)
DaysAgo(days) ==
    IF now.day - days \in 1..MaxOrdinal
    THEN [error |-> "none", datetime |-> [day |-> now.day - days, minute |-> now.minute]]
    ELSE [error |-> "OverflowError", datetime |-> now]

TimeConditions ==
    { "assert_modification_time_newer_than", "assert_modification_time_older_than",
      "assert_data_time_newer_than", "assert_data_time_older_than" }

OlderThan == { "assert_modification_time_older_than", "assert_data_time_older_than" }

(* Faulty variant of WhenNone: every condition gives False.                *)
WhenNoneFalse(name) == "False"

(* What a condition on times returns when _get_neighbor gives None.        *)
WhenNone(name) == IF name \in OlderThan THEN "True" ELSE "False"

(* sds_file, sds_file.next or sds_file.previous.                           *)
queried_file(d, neighbor, padded) ==
    IF neighbor = "current" THEN [error |-> "none", message |-> "", d |-> d]
    ELSE __getAdjacentFile(d, IF neighbor = "next" THEN 1 ELSE 0 - 1, padded)

(* What sha256 gives for the content of the file of a neighbor, and the    *)
(* property checksum of the neighbor.                                      *)
Digest == [previous |-> "sha2:a", current |-> "sha2:b", next |-> "sha2:a"]

checksum(neighbor) == IF neighbor \in sds.disk THEN Digest[neighbor] ELSE "None"

ConditionsInit ==
    /\ \E file \in StatFilenames, disk \in SUBSET Neighbors :
          sds = [NoFile EXCEPT !.filename = file, !.archiveRoot = ArchiveRoot, !.disk = disk]
    /\ fc = NoCollector
    /\ db = {}
    /\ lg = NoCalls
    /\ cli = NoRun
    /\ load = Loaded
    /\ ExecutorIdle

(* A condition can be called.                                              *)
Evaluable ==
    /\ sds.made
    /\ sds.error = "none"
    /\ sds.cond.pc \in {"idle", "done"}
    /\ sds.conds < MaxConds

(* A condition has returned or raised.                                     *)
Evaluated(name, options, given, absent, result) ==
    [name |-> name, options |-> options, given |-> given, pc |-> "done", absent |-> absent,
     result |-> result]

(* The four conditions on times, up to `if file_to_apply is None`:         *)
(* _get_neighbor(sds_file, options.get("apply_to", "current")).            *)
_get_neighbor ==
    /\ Evaluable
    /\ \E apply_to \in Neighbors :
       \E queried \in { queried_file(sds.d, apply_to, sds.padded) } :
       \E name \in TimeConditions, days \in DaysOptions :
          sds' = [sds EXCEPT
             !.conds = @ + 1,
             !.cond = LET options == [apply_to |-> apply_to, days |-> days] IN
                      IF queried.error # "none"
                      THEN Evaluated(name, options, <<>>, FALSE, queried.error)
                      ELSE IF apply_to \notin sds.disk
                      THEN Evaluated(name, options, <<>>, TRUE, WhenNone(name))
                      ELSE [name |-> name, options |-> options, given |-> <<>>,
                            pc |-> "found", absent |-> FALSE, result |-> "none"]]
    /\ UNCHANGED <<db, lg, cli, load, fc, execVars>>

(* The four conditions on times, their last line: file_to_apply.modified   *)
(* or file_to_apply.start is read, then datetime.now() - timedelta(...) is *)
(* computed, then the two are compared.  modified is None when the file    *)
(* is no longer there, and None is not ordered with a datetime.            *)
CompareTimes ==
    \E modified \in ModificationTimes :
       LET name == sds.cond.name
           target == queried_file(sds.d, sds.cond.options.apply_to, sds.padded).d
           on_modification == name \in {"assert_modification_time_newer_than",
                                        "assert_modification_time_older_than"}
           gone == on_modification /\ sds.cond.options.apply_to \notin sds.disk
           started == start(target)
           time == IF on_modification THEN modified
                   ELSE [day |-> started.ordinal, minute |-> 0]
           ago == DaysAgo(sds.cond.options.days)
           result == IF ~on_modification /\ started.error # "none" THEN started.error
                     ELSE IF ago.error # "none" THEN ago.error
                     ELSE IF gone THEN "TypeError"
                     ELSE IF name \in OlderThan
                     THEN (IF Earlier(time, ago.datetime) THEN "True" ELSE "False")
                     ELSE (IF Earlier(ago.datetime, time) THEN "True" ELSE "False")
       IN  /\ sds.cond.pc = "found"
           /\ sds' = [sds EXCEPT !.cond.pc = "done",
                                 !.cond.given = IF gone \/ ~on_modification THEN <<>>
                                                ELSE <<modified>>,
                                 !.cond.result = result]
           /\ UNCHANGED <<db, lg, cli, load, fc, execVars>>

(* Another process removes or creates the file of a neighbor.              *)
DiskChanges ==
    /\ sds.made
    /\ \E neighbor \in Neighbors :
          sds' = [sds EXCEPT !.disk = IF neighbor \in @ THEN @ \ {neighbor}
                                      ELSE @ \cup {neighbor}]
    /\ UNCHANGED <<db, lg, cli, load, fc, execVars>>

Checksums == { "sha2:a", "sha2:b", "None" }

(* The documents of a catalog for a file: none, or one with the checksum   *)
(* of the file and those of the files of the days before and after, as     *)
(* they were when the document was made.                                   *)
NoDocument == [found |-> FALSE, checksum |-> "None", checksum_prev |-> "None",
               checksum_next |-> "None"]

Documents ==
    {NoDocument} \cup
    [found : {TRUE}, checksum : Checksums, checksum_prev : Checksums, checksum_next : Checksums]

(* Faulty variant of _assert_exists_and_hashes_in_document: checksum_next  *)
(* is compared only when checksum_prev is not.                             *)
_assert_exists_and_hashes_prev_or_next(document, use_checksum_prev, use_checksum_next) ==
    IF ~document.found THEN "False"
    ELSE IF document.checksum # checksum("current") THEN "False"
    ELSE IF use_checksum_prev
    THEN (IF checksum("previous") # "None" /\ document.checksum_prev # checksum("previous")
          THEN "False" ELSE "True")
    ELSE IF /\ use_checksum_next
            /\ checksum("next") # "None"
            /\ document.checksum_next # checksum("next")
    THEN "False"
    ELSE "True"

(* _assert_exists_and_hashes_in_document(sds_file, document, ...):         *)
(* `exists and same_hash`; same_hash is not assigned, and not read, when   *)
(* the document is None.                                                   *)
_assert_exists_and_hashes_in_document(document, use_checksum_prev, use_checksum_next) ==
    IF ~document.found THEN "False"
    ELSE IF document.checksum # checksum("current") THEN "False"
    ELSE IF /\ use_checksum_prev
            /\ checksum("previous") # "None"
            /\ document.checksum_prev # checksum("previous")
    THEN "False"
    ELSE IF /\ use_checksum_next
            /\ checksum("next") # "None"
            /\ document.checksum_next # checksum("next")
    THEN "False"
    ELSE "True"

(* What a condition on documents and checksums is given: the document or   *)
(* the object, and the checksums of the three files as they are.           *)
Given(document) ==
    [document |-> document, current |-> checksum("current"),
     previous |-> checksum("previous"), next |-> checksum("next")]

(* A call of _assert_exists_and_hashes_in_document, as                     *)
(* assert_dc_metadata_exists_condition makes it, and with the checksums of *)
(* the neighbors asked for.                                                *)
DocumentMatch ==
    \E document \in Documents, use_checksum_prev \in BOOLEAN, use_checksum_next \in BOOLEAN :
       /\ Evaluable
       /\ sds' = [sds EXCEPT
             !.conds = @ + 1,
             !.cond = Evaluated("_assert_exists_and_hashes_in_document",
                                [use_checksum_prev |-> use_checksum_prev,
                                 use_checksum_next |-> use_checksum_next],
                                Given(document), FALSE,
                                _assert_exists_and_hashes_in_document(
                                    document, use_checksum_prev, use_checksum_next))]
       /\ UNCHANGED <<db, lg, cli, load, fc, execVars>>

(* The options of a condition that can hold check_checksum.                *)
ChecksumOptions ==
    { [has |-> FALSE, check_checksum |-> FALSE],
      [has |-> TRUE, check_checksum |-> FALSE],
      [has |-> TRUE, check_checksum |-> TRUE] }

(* The object of the file in the object store: whether there is one, and   *)
(* the checksum in its metadata, "None" when the metadata has none.        *)
Objects == [found : BOOLEAN, checksum : Checksums]

(* assert_s3_exists_condition(options, sds_file).                          *)
assert_s3_exists(options, object) ==
    IF options.has
    THEN (IF options.check_checksum
          THEN (IF object.found /\ object.checksum = checksum("current") THEN "True"
                ELSE "False")
          ELSE (IF object.found THEN "True" ELSE "False"))
    ELSE (IF object.found THEN "True" ELSE "False")

assert_s3_exists_condition ==
    \E object \in Objects, options \in ChecksumOptions :
       /\ Evaluable
       /\ sds' = [sds EXCEPT
             !.conds = @ + 1,
             !.cond = Evaluated("assert_s3_exists_condition", options,
                                [object |-> object, current |-> checksum("current")], FALSE,
                                assert_s3_exists(options, object))]
       /\ UNCHANGED <<db, lg, cli, load, fc, execVars>>

ConditionsNext ==
    \/ __init__
    \/ _get_neighbor
    \/ CompareTimes
    \/ DiskChanges
    \/ DocumentMatch
    \/ assert_s3_exists_condition

SpecConditions == ConditionsInit /\ [][ConditionsNext]_vars

(* C31: a condition on the modification time or on the time of the data,   *)
(* applied to the file itself, to the next or to the previous one, that    *)
(* finds no file at the filepath of the one it is applied to returns False *)
(* when it is a newer_than and True when it is an older_than, whatever     *)
(* days is, and does not raise.                                            *)
C31_MissingFileIsOldNotNew ==
    (sds.cond.pc = "done" /\ sds.cond.name \in TimeConditions /\ sds.cond.absent) =>
       sds.cond.result = (IF sds.cond.name \in OlderThan THEN "True" ELSE "False")

(* An older_than applied to the previous file, which is not there, has     *)
(* returned True for a number of days that timedelta cannot take from      *)
(* now.                                                                    *)
C31_Witness ==
    /\ sds.cond.pc = "done"
    /\ sds.cond.absent
    /\ sds.cond.name = "assert_modification_time_older_than"
    /\ sds.cond.options.apply_to = "previous"
    /\ DaysAgo(sds.cond.options.days).error # "none"
    /\ sds.cond.result = "True"

(* _assert_exists_and_hashes_in_document has returned.                     *)
DocumentMatched == sds.cond.pc = "done" /\ sds.cond.name = "_assert_exists_and_hashes_in_document"

(* C32: _assert_exists_and_hashes_in_document returns True when there is   *)
(* a document, its checksum is that of the file, the checksum_prev of the  *)
(* document is that of the previous file if it is asked for and that file  *)
(* is there, and the same for checksum_next and the next file; it returns  *)
(* False otherwise, and so without a document.                             *)
C32_DocumentMatches ==
    DocumentMatched =>
       LET given == sds.cond.given
           document == given.document
           matches ==
              /\ document.found
              /\ document.checksum = given.current
              /\ (sds.cond.options.use_checksum_prev /\ given.previous # "None")
                    => document.checksum_prev = given.previous
              /\ (sds.cond.options.use_checksum_next /\ given.next # "None")
                    => document.checksum_next = given.next
       IN  sds.cond.result = (IF matches THEN "True" ELSE "False")

(* With both neighbors there and both checksums asked for, a document      *)
(* with the checksums of the file and of the previous file and another     *)
(* checksum_next has been refused.                                         *)
C32_Witness ==
    /\ DocumentMatched
    /\ sds.cond.options.use_checksum_prev
    /\ sds.cond.options.use_checksum_next
    /\ sds.cond.given.document.found
    /\ sds.cond.given.document.checksum = sds.cond.given.current
    /\ sds.cond.given.previous # "None"
    /\ sds.cond.given.document.checksum_prev = sds.cond.given.previous
    /\ sds.cond.given.next # "None"
    /\ sds.cond.given.document.checksum_next # sds.cond.given.next
    /\ sds.cond.result = "False"

(* C33: assert_s3_exists_condition without check_checksum among its        *)
(* options returns True only when the object is in the object store and    *)
(* the checksum in its metadata is that of the file, as with               *)
(* check_checksum true.                                                    *)
C33_ChecksumVerifiedByDefault ==
    (/\ sds.cond.pc = "done"
     /\ sds.cond.name = "assert_s3_exists_condition"
     /\ ~sds.cond.options.has) =>
       sds.cond.result = (IF /\ sds.cond.given.object.found
                             /\ sds.cond.given.object.checksum = sds.cond.given.current
                          THEN "True" ELSE "False")

(* C33, the part that holds: with check_checksum true the checksum is      *)
(* verified; without it, and with it false, only the presence of the       *)
(* object is.                                                              *)
C33_ChecksumVerifiedWhenAsked ==
    (sds.cond.pc = "done" /\ sds.cond.name = "assert_s3_exists_condition") =>
       sds.cond.result =
          (IF /\ sds.cond.given.object.found
              /\ (sds.cond.options.has /\ sds.cond.options.check_checksum)
                    => sds.cond.given.object.checksum = sds.cond.given.current
           THEN "True" ELSE "False")

----------------------------------------------------------------------------
(* sequence(items) on a manager whose loadRules has returned or has        *)
(* raised, for a caller that goes on after the exception of loadRules.     *)

(* The call of sequence(items): total = len(items).                        *)
sequence ==
    /\ pc \in {"loaded", "load_failed"}
    /\ total' \in 0..MaxItems
    /\ load' = [load EXCEPT !.raised = (pc = "load_failed")]
    /\ pc' = "item"
    /\ i' = 1
    /\ exc' = NoExc
    /\ UNCHANGED <<notLoader, rule_seq, ruleSequence, k, c, alarm, armedFor, brk, out, cur,
                   attempts, fate>>

(* map(self.getRule, self.ruleSequence) gives the next rule: getRule binds *)
(* it when the for statement asks for it, after the rules before it have   *)
(* run.                                                                    *)
NextRuleBound ==
    /\ load.assigned
    /\ pc = "rule"
    /\ k <= Len(ruleSequence) => getRule(Rule) = "ok"
    /\ NextRule

(* map(self.getRule, self.ruleSequence) raises and the exception leaves    *)
(* sequence(): the TypeError of map(..., None) when self.ruleSequence was  *)
(* never assigned, the AttributeError of getattr or the TypeError of       *)
(* partial when the rule cannot be bound.                                  *)
NextRuleRaises ==
    /\ pc = "rule"
    /\ IF ~load.assigned
       THEN exc' = MkExc("TypeError", <<"'NoneType' object is not iterable">>, FALSE)
       ELSE /\ k <= Len(ruleSequence)
            /\ getRule(Rule) # "ok"
            /\ exc' = MkExc(getRule(Rule), Rule.functionName, FALSE)
    /\ pc' = "escaped"
    /\ UNCHANGED <<aux, db, rule_seq, ruleSequence, total, i, k, c, alarm, armedFor, brk, out, cur,
                   attempts, fate>>

LoadThenSequenceNext ==
    \/ LoadNext
    \/ sequence
    \/ NextItem
    \/ NextRuleBound
    \/ NextRuleRaises
    \/ EnterTry
    \/ AssertCondition
    \/ CallRule
    \/ RuleEnds
    \/ LogSuccess
    \/ LeaveTry
    \/ HandleExit
    \/ HandleExitBreak
    \/ HandleTimeout
    \/ HandleAssertion
    \/ HandleException
    \/ Finally
    \/ Alarm

SpecLoadThenSequence == LoadInit /\ [][LoadThenSequenceNext]_vars

C34_RejectedRunsUpToRefused ==
    load.raised =>
       /\ ~load.assigned => (attempts = <<>> /\ cur.invoked = 0)
       /\ \A p \in 1..Len(attempts) :
             /\ p <= Len(ruleSequence)
             /\ attempts[p] = ruleSequence[p].ruleName
             /\ \A q \in 1..p : getRule(ruleSequence[q]) = "ok"
       /\ pc = "done" =>
             (total = 0 \/ \E q \in 1..Len(ruleSequence) : getRule(ruleSequence[q]) # "ok")

----------------------------------------------------------------------------
(* The rules of rules/sdsrules.py that ingest into the object store, that  *)
(* quarantine and that delete, run by sequence() on one file: every item   *)
(* of the run is a descriptor of that file, so that the second item is the *)
(* pipeline tried again.                                                   *)

NoOptions == <<>>

SdsRuleDef(name, fn, options, conds) ==
    [ruleName |-> name, functionName |-> <<fn>>, options |-> options, conditions |-> conds,
     timeout |-> NoTimeout]

(* The outcome of a rule function: it returns or raises, and has changed   *)
(* the backends and the deletion table.                                    *)
Returned(backends, table) ==
    [kind |-> "return", exc |-> NoExc, backends |-> backends, db |-> table]

Raised(e, backends, table) ==
    [kind |-> "raise", exc |-> e, backends |-> backends, db |-> table]

(* raise ExitPipelineException(True, str(ex)).                             *)
ExitOnError(ex) == MkExc("ExitPipelineException", ex.message, TRUE)

(* options[key] raises KeyError(key).                                      *)
KeyError(key) == MkExc("KeyError", <<key>>, FALSE)

(* "dry_run" in options and options["dry_run"].                            *)
dry_run(options) == "dry_run" \in DOMAIN options /\ options.dry_run

(* How s3manager.put(sds_file) can end: it returns, or it raises: an error *)
(* of boto3, the TimeoutError of a read of the file that times out         *)
(* (ETIMEDOUT), the AssertionError of an assert statement of a library.    *)
PutOutcomes ==
    {"ok", "CredentialRetrievalError", "S3UploadFailedError", "ClientError", "TimeoutError",
     "AssertionError"}

(* The exceptions of the except clause of ingestion_s3_rule.               *)
UploadErrors == {"CredentialRetrievalError", "S3UploadFailedError"}

PutError(t) == MkExc(t, <<"upload failed">>, FALSE)

(* Faulty variant of ingestion_s3_rule: exit_on_failure is not looked at.  *)
ingestion_s3_rule_always_exits(options, b, table) ==
    { IF put = "ok" THEN Returned([b EXCEPT !.s3 = TRUE, !.put = put], table)
      ELSE IF put \in UploadErrors
      THEN Raised(ExitOnError(PutError(put)), [b EXCEPT !.put = put], table)
      ELSE Raised(PutError(put), [b EXCEPT !.put = put], table) : put \in PutOutcomes }

(* ingestion_s3_rule(options, sds_file).                                   *)
ingestion_s3_rule(options, b, table) ==
    { IF put = "ok" THEN Returned([b EXCEPT !.s3 = TRUE, !.put = put], table)
      ELSE IF put \in UploadErrors
      THEN (IF "exit_on_failure" \notin DOMAIN options
            THEN Raised(KeyError("exit_on_failure"), [b EXCEPT !.put = put], table)
            ELSE IF options.exit_on_failure
            THEN Raised(ExitOnError(PutError(put)), [b EXCEPT !.put = put], table)
            ELSE Raised(PutError(put), [b EXCEPT !.put = put], table))
      ELSE Raised(PutError(put), [b EXCEPT !.put = put], table) : put \in PutOutcomes }

FileQuarantined == MkExc("ExitPipelineException", <<"File quarantined">>, FALSE)

(* shutil.move(source, dest_dir) of a file: FileNotFoundError when the     *)
(* source is not there, shutil.Error when dest_dir has a file of its name. *)
MoveError(there, b) ==
    IF ~there THEN MkExc("FileNotFoundError", <<"No such file or directory">>, FALSE)
    ELSE IF b.quarantine THEN MkExc("shutil.Error", <<"Destination path already exists">>, FALSE)
    ELSE NoExc

(* The exceptions of the except clause of the quarantine rules.            *)
QuarantineErrors == {"KeyError", "shutil.Error", "PermissionError"}

PermissionError == MkExc("PermissionError", <<"Permission denied">>, FALSE)

(* except (KeyError, shutil.Error, PermissionError) as ex: raise           *)
(* ExitPipelineException(True, str(ex)); any other exception goes on.      *)
QuarantineRaise(ex, b, table) ==
    Raised(IF ex.type \in QuarantineErrors THEN ExitOnError(ex) ELSE ex, b, table)

(* quarantine_raw_file_rule(options, sds_file).                            *)
quarantine_raw_file_rule(options, b, table) ==
    IF "quarantine_path" \notin DOMAIN options
    THEN { QuarantineRaise(KeyError("quarantine_path"), b, table) }
    ELSE IF dry_run(options) THEN { Raised(FileQuarantined, b, table) }
    ELSE { QuarantineRaise(PermissionError, b, table) } \cup
         { IF MoveError(b.archive, b) # NoExc
           THEN QuarantineRaise(MoveError(b.archive, b), b, table)
           ELSE Raised(FileQuarantined, [b EXCEPT !.archive = FALSE, !.quarantine = TRUE],
                       table) }

(* quarantine_pruned_file_rule(options, sds_file): the raw .D file is      *)
(* moved, then the .Q file of the item is removed.                         *)
quarantine_pruned_file_rule(options, b, table) ==
    IF "quarantine_path" \notin DOMAIN options
    THEN { QuarantineRaise(KeyError("quarantine_path"), b, table) }
    ELSE IF dry_run(options) THEN { Raised(FileQuarantined, b, table) }
    ELSE { QuarantineRaise(PermissionError, b, table) } \cup
         { IF MoveError(b.raw, b) # NoExc
           THEN QuarantineRaise(MoveError(b.raw, b), b, table)
           ELSE LET moved == [b EXCEPT !.raw = FALSE, !.quarantine = TRUE] IN
                IF ~b.archive
                THEN QuarantineRaise(MoveError(FALSE, b), moved, table)
                ELSE Raised(FileQuarantined, [moved EXCEPT !.archive = FALSE], table) }

(* Faulty variant of purge_rule: the FileNotFoundError of os.remove is not *)
(* caught.                                                                 *)
purge_rule_uncaught(options, b, table) ==
    IF b.archive THEN { Returned([b EXCEPT !.archive = FALSE, !.found = TRUE], table) }
    ELSE { Raised(MoveError(FALSE, b), [b EXCEPT !.found = FALSE], table) }

(* purge_rule(options, sds_file): os.remove(sds_file.filepath), and        *)
(* FileNotFoundError is caught.                                            *)
purge_rule(options, b, table) ==
    { Returned([b EXCEPT !.archive = FALSE, !.found = b.archive], table) }

(* delete_archive_rule: IRODSManager.delete_data_object returns when the   *)
(* data object is not registered, and unlinks it otherwise.                *)
delete_archive_rule(options, b, table) ==
    IF ~b.irods THEN { Returned([b EXCEPT !.found = FALSE], table) }
    ELSE { Returned([b EXCEPT !.irods = FALSE, !.found = TRUE], table) }

(* delete_s3_rule: bucket.Object(key).delete(), unless dry_run.            *)
delete_s3_rule(options, b, table) ==
    IF dry_run(options) THEN { Returned(b, table) }
    ELSE { Returned([b EXCEPT !.s3 = FALSE, !.found = b.s3], table) }

(* delete_ppsd_metadata_rule: delete_many of the documents of the file;   *)
(* its options are not read.                                               *)
delete_ppsd_metadata_rule(options, b, table) ==
    { Returned([b EXCEPT !.ppsd = FALSE, !.found = b.ppsd], table) }

(* delete_waveform_metadata_rule: delete_one of the daily document and     *)
(* delete_many of the segments documents of the file.                      *)
delete_waveform_metadata_rule(options, b, table) ==
    IF dry_run(options) THEN { Returned(b, table) }
    ELSE { Returned([b EXCEPT !.wfcatalog = FALSE, !.found = b.wfcatalog], table) }

(* The filename of the file of the items.                                  *)
ItemFilename == "A"

(* remove_from_deletion_database_rule: deletion_database.remove(sds_file). *)
remove_from_deletion_database_rule(options, b, table) ==
    { Returned([b EXCEPT !.found = (\E row \in table : row.file = ItemFilename)],
               _delete_row(table, ItemFilename)) }

SdsRuleCall(rule, b, table) ==
    LET name == rule.functionName[1]
        options == rule.options
    IN  CASE name = "ingestion_s3_rule" -> ingestion_s3_rule(options, b, table)
          [] name = "quarantine_raw_file_rule" -> quarantine_raw_file_rule(options, b, table)
          [] name = "quarantine_pruned_file_rule" ->
                quarantine_pruned_file_rule(options, b, table)
          [] name = "purge_rule" -> purge_rule(options, b, table)
          [] name = "delete_archive_rule" -> delete_archive_rule(options, b, table)
          [] name = "delete_s3_rule" -> delete_s3_rule(options, b, table)
          [] name = "delete_ppsd_metadata_rule" -> delete_ppsd_metadata_rule(options, b, table)
          [] name = "delete_waveform_metadata_rule" ->
                delete_waveform_metadata_rule(options, b, table)
          [] name = "remove_from_deletion_database_rule" ->
                remove_from_deletion_database_rule(options, b, table)

(* The rule function called by Rule.apply ends: it returns or raises.      *)
SdsRuleEnds ==
    /\ pc = "action"
    /\ \E r \in SdsRuleCall(Rule, sds.backends, db) :
         /\ IF r.kind = "return"
            THEN /\ pc' = "success_log"
                 /\ cur' = [cur EXCEPT !.action = "return"]
                 /\ exc' = exc
            ELSE /\ Raise(r.exc)
                 /\ cur' = [cur EXCEPT !.action = "raise", !.actionExc = r.exc]
         /\ sds' = [sds EXCEPT !.backends = r.backends]
         /\ db' = r.db
    /\ UNCHANGED <<load, lg, cli, fc, rule_seq, ruleSequence, total, attempts, fate, i, k, c, alarm,
                   armedFor, brk, out>>

Purge == SdsRuleDef("purge", "purge_rule", NoOptions, <<>>)

Quarantine == [quarantine_path |-> "/data/quarantine"]

(* The pipelines of the rule maps of the model.                            *)
Pipelines ==
    { <<SdsRuleDef("ingestS3OrExit", "ingestion_s3_rule", [exit_on_failure |-> TRUE], <<>>),
        Purge>>,
      <<SdsRuleDef("ingestS3", "ingestion_s3_rule", [exit_on_failure |-> FALSE], <<>>),
        Purge>>,
      <<SdsRuleDef("ingestS3NoOption", "ingestion_s3_rule", NoOptions, <<>>), Purge>>,
      <<SdsRuleDef("quarantineRaw", "quarantine_raw_file_rule", Quarantine, <<>>), Purge>>,
      <<SdsRuleDef("quarantineNowhere", "quarantine_raw_file_rule", NoOptions, <<>>), Purge>>,
      <<SdsRuleDef("quarantinePruned", "quarantine_pruned_file_rule", Quarantine, <<>>),
        Purge>>,
      <<SdsRuleDef("wouldDeleteS3", "delete_s3_rule", [dry_run |-> TRUE],
                   <<Ref(<<"trueCondition">>)>>),
        SdsRuleDef("purgeNever", "purge_rule", NoOptions, <<Ref(<<"falseCondition">>)>>)>>,
      <<SdsRuleDef("deleteArchive", "delete_archive_rule", NoOptions, <<>>),
        SdsRuleDef("deleteS3", "delete_s3_rule", NoOptions, <<>>),
        SdsRuleDef("deletePPSD", "delete_ppsd_metadata_rule", NoOptions, <<>>),
        SdsRuleDef("deleteWaveform", "delete_waveform_metadata_rule", NoOptions, <<>>),
        Purge,
        SdsRuleDef("removeFromDeletionDatabase", "remove_from_deletion_database_rule",
                   NoOptions, <<>>)>> }

(* The file is everywhere or nowhere in the archives and catalogs, and the *)
(* temporary archive and the quarantine area hold any of its files.        *)
Backends ==
    { [NoBackends EXCEPT !.archive = on[1], !.raw = on[2], !.quarantine = on[3],
                         !.irods = on[4], !.s3 = on[4], !.ppsd = on[4], !.wfcatalog = on[4]] :
        on \in [1..4 -> BOOLEAN] }

SdsRulesInit ==
    /\ ruleSequence \in Pipelines
    /\ rule_seq = [p \in 1..Len(ruleSequence) |-> ruleSequence[p].ruleName]
    /\ total \in 1..MaxItems
    /\ fate = <<>>
    /\ \E b \in Backends : sds = [NoFile EXCEPT !.backends = b]
    /\ db \in { {}, _insert_row({}, ItemFilename) }
    /\ i = 1
    /\ k = 1
    /\ c = 1
    /\ pc = "item"
    /\ alarm = 0
    /\ armedFor = <<0, 0>>
    /\ exc = NoExc
    /\ brk = FALSE
    /\ out = <<>>
    /\ cur = NewIteration
    /\ attempts = <<>>
    /\ load = Loaded
    /\ lg = NoCalls
    /\ cli = NoRun
    /\ fc = NoCollector

SdsRulesNext ==
    \/ NextItem
    \/ NextRule
    \/ EnterTry
    \/ AssertCondition
    \/ CallRule
    \/ SdsRuleEnds
    \/ LogSuccess
    \/ LeaveTry
    \/ HandleExit
    \/ HandleExitBreak
    \/ HandleTimeout
    \/ HandleAssertion
    \/ HandleException
    \/ Finally
    \/ Alarm

SpecSdsRules == SdsRulesInit /\ [][SdsRulesNext]_vars

(* The rule of the iteration armed last, and whether its action has ended  *)
(* without its deadline having expired.                                    *)
Armed == ruleSequence[armedFor[2]]

ActionEnded(names) ==
    /\ armedFor[2] > 0
    /\ Armed.functionName[1] \in names
    /\ cur.action # "none"
    /\ NoExpiry

(* C35: when s3manager.put raises CredentialRetrievalError or              *)
(* S3UploadFailedError, ingestion_s3_rule with exit_on_failure true raises *)
(* ExitPipelineException(True, str(e)) and no later rule runs for the      *)
(* item; with exit_on_failure false the error is raised again, is recorded *)
(* as a Failure and the next rule runs; any other error of the upload is   *)
(* raised as it is, never as an ExitPipelineException, and an upload that  *)
(* succeeds makes the rule return.                                         *)
C35_UploadErrorExitsIfConfigured ==
    (ActionEnded({"ingestion_s3_rule"}) /\ "exit_on_failure" \in DOMAIN Armed.options) =>
       LET put == sds.backends.put IN
       /\ put = "ok" <=> cur.action = "return"
       /\ (put \in UploadErrors /\ Armed.options.exit_on_failure) =>
             /\ cur.actionExc = MkExc("ExitPipelineException", PutError(put).message, TRUE)
             /\ pc \in {"h_exit", "h_exit2", "finally"} \/ AtNextItem
             /\ pc = "finally" => brk
       /\ (put \in UploadErrors /\ ~Armed.options.exit_on_failure) =>
             /\ cur.actionExc = PutError(put)
             /\ pc \in {"h_error", "finally"} \/ AtNextRule
             /\ pc # "h_error" => Count("Failure") = 1
             /\ pc = "finally" => ~brk
       /\ (put \notin UploadErrors /\ put # "ok") =>
             /\ cur.actionExc = PutError(put)
             /\ cur.actionExc.type # "ExitPipelineException"
             /\ pc \in {"h_error", "h_timeout", "h_assert", "finally"} \/ AtNextRule
             /\ pc = "finally" => ~brk

(* Witness of C35: the upload of item 1 failed with S3UploadFailedError    *)
(* under exit_on_failure true and the loop is at item 2 without the second *)
(* rule having been attempted for item 1.                                  *)
C35_Witness ==
    /\ ActionEnded({"ingestion_s3_rule"})
    /\ Armed.options = [exit_on_failure |-> TRUE]
    /\ sds.backends.put = "S3UploadFailedError"
    /\ armedFor = <<1, 1>>
    /\ Len(ruleSequence) = 2
    /\ pc = "rule"
    /\ i = 2
    /\ k = 1
    /\ attempts = <<>>
    /\ out = <<Log("Executing", <<"ingestS3OrExit">>), Log("Failure", PutError("S3UploadFailedError").message),
              Log("Exit", <<>>)>>

QuarantineRules == {"quarantine_raw_file_rule", "quarantine_pruned_file_rule"}

(* C36: every execution of a quarantine rule ends by raising               *)
(* ExitPipelineException, so that no rule after it runs for the item.      *)
C36_QuarantineAlwaysExits ==
    ActionEnded(QuarantineRules) =>
       /\ cur.action = "raise"
       /\ cur.actionExc.type = "ExitPipelineException"
       /\ pc \in {"h_exit", "h_exit2", "finally"} \/ AtNextItem

(* What holds of C36: a quarantine rule never returns, and it raises       *)
(* ExitPipelineException unless the file to move or to remove is not       *)
(* there; the FileNotFoundError of that case is recorded as a Failure and  *)
(* the next rule runs.                                                     *)
C36_QuarantineExitsUnlessFileMissing ==
    ActionEnded(QuarantineRules) =>
       /\ cur.action = "raise"
       /\ cur.actionExc.type \in {"ExitPipelineException", "FileNotFoundError"}
       /\ cur.actionExc.type = "ExitPipelineException" =>
             (pc \in {"h_exit", "h_exit2", "finally"} \/ AtNextItem)
       /\ cur.actionExc.type = "FileNotFoundError" =>
             (pc \in {"h_error", "finally"} \/ AtNextRule)

DeletionRules ==
    {"purge_rule", "delete_archive_rule", "delete_s3_rule", "delete_ppsd_metadata_rule",
     "delete_waveform_metadata_rule", "remove_from_deletion_database_rule"}

(* What the rule deletes is not there.                                     *)
TargetDeleted(name) ==
    CASE name = "purge_rule" -> ~sds.backends.archive
      [] name = "delete_archive_rule" -> ~sds.backends.irods
      [] name = "delete_s3_rule" -> ~sds.backends.s3
      [] name = "delete_ppsd_metadata_rule" -> ~sds.backends.ppsd
      [] name = "delete_waveform_metadata_rule" -> ~sds.backends.wfcatalog
      [] name = "remove_from_deletion_database_rule" ->
            \A row \in db : row.file # ItemFilename

----------------------------------------------------------------------------
(* The outcomes recorded for the iteration armed last, and whether that    *)
(* iteration is over.                                                      *)
Outcomes == Cardinality({ n \in 1..Len(out) : out[n].word \in OutcomeWords })

IterationOver == armedFor # <<0, 0>> /\ pc \in {"rule", "item", "done", "escaped"}

(* C38: for every (item, rule) that sequence() attempts exactly one of     *)
(* Success, Skip, Timeout and Failure is recorded, whenever the alarm      *)
(* fires between signal.alarm(timeout) and signal.alarm(0): never two, and *)
(* one when the iteration is over.                                         *)
C38_ExactlyOneOutcome ==
    /\ Outcomes <= 1
    /\ IterationOver => Outcomes = 1

(* What holds of C38: an iteration whose deadline does not expire and that *)
(* nothing escapes from records exactly one outcome; there are never more  *)
(* than two, and two only as Success then Timeout, when the alarm fires    *)
(* after the Success record and before the try statement is left; a        *)
(* Failure or a Skip is never followed by a Timeout.                       *)
C38_OneOutcomeUnlessExpiry ==
    /\ (IterationOver /\ NoExpiry /\ pc # "escaped") => Outcomes = 1
    /\ Outcomes <= 2
    /\ Outcomes = 2 =>
          /\ Count("Success") = 1
          /\ Count("Timeout") = 1
          /\ cur.fired = "try_end"
          /\ cur.action = "return"
    /\ Count("Failure") + Count("Skip") >= 1 => Count("Timeout") = 0
    /\ (IterationOver /\ Outcomes = 0) => pc = "escaped"

(* C39: Timeout is recorded only if the deadline of the rule expired, Skip *)
(* only if a condition of the rule did not hold and the action was not     *)
(* invoked, and an exception that the action raises, a TimeoutError or an  *)
(* AssertionError too, is recorded as a Failure.                           *)
C39_TimeoutIsExpiryAndSkipIsCondition ==
    /\ Count("Timeout") >= 1 => cur.fired # "no"
    /\ Count("Skip") >= 1 => (cur.cond = "false" /\ cur.invoked = 0)
    /\ (/\ IterationOver
        /\ NoExpiry
        /\ cur.action = "raise"
        /\ cur.actionExc.type # "ExitPipelineException") => Count("Failure") = 1

(* What holds of C39: Timeout is recorded when the deadline expired in the *)
(* try body or when a condition or the action raised a TimeoutError; Skip  *)
(* when a condition did not hold or when a condition or the action raised  *)
(* an AssertionError; the other exceptions of the action that are          *)
(* Exceptions and no ExitPipelineException are recorded as Failure.        *)
C39_RecordedByExceptionType ==
    /\ Count("Timeout") >= 1 =>
          \/ cur.fired \in TryBody
          \/ cur.cond = "raise" /\ cur.condExc.type = "TimeoutError"
          \/ cur.action = "raise" /\ cur.actionExc.type = "TimeoutError"
    /\ Count("Skip") >= 1 =>
          \/ cur.cond = "false" /\ cur.invoked = 0
          \/ cur.cond = "raise" /\ cur.condExc.type = "AssertionError"
          \/ cur.action = "raise" /\ cur.actionExc.type = "AssertionError"
    /\ (/\ IterationOver
        /\ NoExpiry
        /\ cur.action = "raise"
        /\ ExceptClause(cur.actionExc) = "h_error") => Count("Failure") = 1

=============================================================================
